---- MODULE Spec2Model ----
(***************************************************************************)
(* AutoOD annotation editor: the AnnotationEditor page (its annotation     *)
(* store, history log, label registry, image session and detection         *)
(* merges) and the AnnotationCanvas component (pointer gestures).          *)
(*                                                                         *)
(* Every React event handler is one atomic action: the state updates a     *)
(* handler queues are applied together, followed by the effects whose      *)
(* dependencies changed.  An asynchronous handler is split at its awaits;  *)
(* the values it closed over when it was invoked travel with the request.  *)
(***************************************************************************)
EXTENDS Integers, Sequences, FiniteSets, TLC

(***************************************************************************)
(* Bounds of the model.                                                    *)
(***************************************************************************)
MaxIds == 1          \* identifiers generateUUID hands out in a whole session
MaxHistory == 2      \* longest history log explored in a whole session
MaxStoreIds == 2     \* identifiers handed out while the store and labels are explored
MaxStoreHistory == 4 \* longest history log when one image is edited
MaxEditIds == 3      \* identifiers handed out while one image is edited
MaxMergeIds == 5     \* identifiers handed out while detections are merged
MaxPolygonPoints == 3 \* most vertices of a polygon in progress
MaxPan == 16         \* farthest the image is panned, in canvas pixels
MaxUrls == 2         \* how many object URLs URL.createObjectURL hands out
MaxLabelDeletes == 1 \* how many labels may be missing from the registry
MaxRecolored == 1    \* how many labels may carry a changed colour
MaxPending == 1      \* how many detection requests may be in flight
MaxInterleaved == 1  \* how many events may occur while a request is in flight
ImageWidth == 24     \* natural width of every loaded image
ImageHeight == 24    \* natural height of every loaded image
CanvasWidth == 32    \* width of the canvas element
CanvasHeight == 32   \* height of the canvas element

(***************************************************************************)
(* Representation of JavaScript values.                                    *)
(***************************************************************************)
Null == 0            \* null / undefined / '' for identifiers and URLs
ZoomUnit == 1000     \* zoom is kept in thousandths: zoom 1 is ZoomUnit
ServerUrlBase == 100 \* URLs above it are served by the backend, not blob: URLs

VARIABLES
    \* AnnotationEditor state
    currentTool, selectedLabelId, selectedAnnotationId, annotations,
    imageAnnotations, labels, zoom, pan, imageUrl, imageUrls,
    currentImageIndex, isVideoMode, history, historyIndex, isAutoAnnotating,
    \* AnnotationCanvas state
    image, isDrawing, startPoint, currentPoint, polygonPoints, isPanning,
    lastPanPoint, isDragging, dragStart, dragOffset, isResizing,
    resizeHandle, resizeStart, originalBounds,
    \* environment
    nextId,      \* the next identifier generateUUID returns
    nextUrl,     \* the next object URL URL.createObjectURL returns
    revoked,     \* the object URLs released by URL.revokeObjectURL
    pending,     \* detection requests in flight, with their closures
    sinceRequest,\* events handled since a request has been in flight
    lastOp,      \* the handler (and branch) that ran last
    scope        \* what is explored: input sets and depths, never changed

storeVars == <<annotations, imageAnnotations, history, historyIndex>>
labelVars == <<labels, selectedLabelId>>
sessionVars == <<imageUrl, imageUrls, currentImageIndex, isVideoMode>>
viewVars == <<zoom, pan>>
drawVars == <<isDrawing, startPoint, currentPoint, polygonPoints>>
panVars == <<isPanning, lastPanPoint>>
dragVars == <<isDragging, dragStart, dragOffset>>
resizeVars == <<isResizing, resizeHandle, resizeStart, originalBounds>>
canvasVars == <<image, drawVars, panVars, dragVars, resizeVars>>
envVars == <<nextId, nextUrl, revoked, pending, isAutoAnnotating>>

vars == <<currentTool, selectedAnnotationId, storeVars, labelVars,
          sessionVars, viewVars, canvasVars, envVars, sinceRequest, lastOp, scope>>

(***************************************************************************)
(* Helpers on sequences and records.                                       *)
(***************************************************************************)
Range(seq) == {seq[i] : i \in 1..Len(seq)}

\* { ...a, ...updates }
Merge(a, updates) ==
    [f \in DOMAIN a \cup DOMAIN updates |->
        IF f \in DOMAIN updates THEN updates[f] ELSE a[f]]

\* a.labelId, undefined when the object has no such field
LabelIdOf(a) == IF "labelId" \in DOMAIN a THEN a.labelId ELSE Null

Min(a, b) == IF a < b THEN a ELSE b
Max(a, b) == IF a > b THEN a ELSE b
Abs(a) == IF a < 0 THEN -a ELSE a

(***************************************************************************)
(* Labels.                                                                 *)
(***************************************************************************)
defaultLabels ==
    << [id |-> 1, name |-> "Car", color |-> "#3B82F6", shortcut |-> "1"],
       [id |-> 2, name |-> "Person", color |-> "#10B981", shortcut |-> "2"],
       [id |-> 3, name |-> "Traffic Sign", color |-> "#F97316", shortcut |-> "3"] >>

LabelIds(ls) == {ls[i].id : i \in 1..Len(ls)}

\* generateUUID: identifiers never repeat and never equal a default label id
FirstUuid == Len(defaultLabels) + 1
CanGenerate(n) == nextId + n - 1 < FirstUuid + scope.ids

(***************************************************************************)
(* History log (pushToHistory, handleUndo, handleRedo).  historyIndex is   *)
(* 0-based as in the source; history[historyIndex + 1] is the entry.       *)
(***************************************************************************)
\* variants of pushToHistory: one that forgets to move the index, one that
\* appends without cutting the log first
pushKeepingIndex(hist, idx, newAnnotations) ==
    [history |-> Append(SubSeq(hist, 1, idx + 1), newAnnotations),
     historyIndex |-> idx]

pushWithoutTruncating(hist, idx, newAnnotations) ==
    [history |-> Append(hist, newAnnotations), historyIndex |-> Len(hist)]

pushToHistory(hist, idx, newAnnotations) ==
    LET newHistory == Append(SubSeq(hist, 1, idx + 1), newAnnotations)
    IN  [history |-> newHistory, historyIndex |-> Len(newHistory) - 1]

\* the effect that saves the displayed annotations under the active image
SaveEffect(map, url, anns) ==
    IF url # Null
    THEN [u \in DOMAIN map \cup {url} |-> IF u = url THEN anns ELSE map[u]]
    ELSE map

\* a variant of handleUndo without its guard
undoUnguarded(anns, hist, idx) ==
    [annotations |-> IF idx > 0 THEN hist[(idx - 1) + 1] ELSE anns,
     historyIndex |-> idx - 1]

undoResult(anns, hist, idx) ==
    IF idx > 0
    THEN [annotations |-> hist[(idx - 1) + 1], historyIndex |-> idx - 1]
    ELSE [annotations |-> anns, historyIndex |-> idx]

\* a variant of handleRedo whose guard is off by one
redoOffByOne(anns, hist, idx) ==
    IF idx < Len(hist) - 2
    THEN [annotations |-> hist[(idx + 1) + 1], historyIndex |-> idx + 1]
    ELSE [annotations |-> anns, historyIndex |-> idx]

redoResult(anns, hist, idx) ==
    IF idx < Len(hist) - 1
    THEN [annotations |-> hist[(idx + 1) + 1], historyIndex |-> idx + 1]
    ELSE [annotations |-> anns, historyIndex |-> idx]

\* a store mutation: setAnnotations(newAnnotations); pushToHistory(newAnnotations)
Commit(newAnnotations) ==
    LET h == pushToHistory(history, historyIndex, newAnnotations)
    IN  /\ annotations' = newAnnotations
        /\ history' = h.history
        /\ historyIndex' = h.historyIndex
        /\ imageAnnotations' = SaveEffect(imageAnnotations, imageUrl, newAnnotations)

HistoryRoom == historyIndex + 1 < scope.history

(***************************************************************************)
(* Initial state: the useState initialisers of both components.            *)
(***************************************************************************)
None == [none |-> TRUE]      \* null, for state that holds an object

EditorInit ==
    /\ currentTool = "select"
    /\ selectedLabelId = defaultLabels[1].id
    /\ selectedAnnotationId = Null
    /\ annotations = <<>>
    /\ imageAnnotations = <<>>
    /\ labels = defaultLabels
    /\ zoom = ZoomUnit
    /\ pan = [x |-> 0, y |-> 0]
    /\ imageUrl = Null
    /\ imageUrls = <<>>
    /\ currentImageIndex = 0
    /\ isVideoMode = FALSE
    /\ history = << <<>> >>
    /\ historyIndex = 0
    /\ isAutoAnnotating = FALSE

CanvasInit ==
    /\ image = None
    /\ isDrawing = FALSE
    /\ startPoint = None
    /\ currentPoint = None
    /\ polygonPoints = <<>>
    /\ isPanning = FALSE
    /\ lastPanPoint = None
    /\ isDragging = FALSE
    /\ dragStart = None
    /\ dragOffset = [x |-> 0, y |-> 0]
    /\ isResizing = FALSE
    /\ resizeHandle = ""
    /\ resizeStart = None
    /\ originalBounds = None

EnvInit ==
    /\ nextId = FirstUuid
    /\ nextUrl = 1
    /\ revoked = {}
    /\ pending = <<>>
    /\ sinceRequest = 0
    /\ lastOp = "init"

\* what the detection service may answer
DetCar == [class |-> "car", confidence |-> 90, bbox |-> <<2, 2, 14, 14>>]
DetDog == [class |-> "Dog", confidence |-> 80, bbox |-> <<4, 4, 16, 20>>]
DetFlat == [class |-> "dog", confidence |-> 70, bbox |-> <<6, 6, 6, 10>>]
DetShort == [class |-> "Cat", confidence |-> 60, bbox |-> <<1, 2, 3>>]

DetectionLists == { <<DetCar>>, <<DetDog, DetFlat>>, <<DetShort>> }

\* a per-image result of a batch or folder response
ErrorResult == [error |-> "failed", detections |-> <<>>]
OkResult(dets) == [error |-> "", detections |-> dets]
ResultOptions == {ErrorResult, OkResult(<<DetCar>>), OkResult(<<DetShort>>)}

\* what the drawing tools can hand to onAnnotationAdd
Rectangle12 == [type |-> "rectangle", x |-> 2, y |-> 2, width |-> 12, height |-> 12]
Rectangle6 == [type |-> "rectangle", x |-> 18, y |-> 18, width |-> 6, height |-> 6]
Point3 == [type |-> "point", x |-> 3, y |-> 3]

\* what a drag or a resize can hand to onAnnotationUpdate
Moved == [x |-> 4, y |-> 6]
Resized == [x |-> 0, y |-> 0, width |-> 10, height |-> 10]

NoPointer ==
    [tools |-> {}, pointerX |-> {}, pointerY |-> {}, panButton |-> {},
     detections |-> DetectionLists, results |-> ResultOptions,
     pending |-> MaxPending]

\* a whole session, explored with few inputs
SessionScope ==
    Merge(NoPointer, [ids |-> MaxIds, history |-> MaxHistory,
                      shapes |-> {Rectangle12}, updates |-> {Moved}])

\* the store and the labels of one image
StoreScope ==
    Merge(NoPointer, [ids |-> MaxStoreIds, history |-> MaxStoreHistory,
                      shapes |-> {Rectangle12}, updates |-> {Moved}])

\* the edits of one image
EditScope ==
    Merge(NoPointer, [ids |-> MaxEditIds, history |-> MaxStoreHistory,
                      shapes |-> {Rectangle12, Point3},
                      updates |-> {Moved, Resized}])

\* drawing: pointer positions 0, 1, 5 and 6 image pixels apart, and
\* positions outside the image
DrawScope ==
    [ids |-> MaxIds, history |-> MaxHistory, shapes |-> {}, updates |-> {},
     tools |-> {"select", "rectangle", "point"},
     pointerX |-> {8, 13, 14, 30}, pointerY |-> {8, 14},
     panButton |-> {FALSE}]

\* dragging and resizing: pointer positions on the corners of the two
\* rectangles, inside them, on the image's edge and outside the image
ResizeScope ==
    [ids |-> MaxIds, history |-> MaxHistory, shapes |-> {}, updates |-> {},
     tools |-> {"select"},
     pointerX |-> {6, 14, 28, 30}, pointerY |-> {6, 14, 28},
     panButton |-> {FALSE}]

\* detection merges: a response naming one new class in two spellings and a
\* known one, a response of unusable boxes, and a response of one box
MergeScope ==
    Merge(NoPointer,
          [ids |-> MaxMergeIds, history |-> MaxHistory,
           shapes |-> {Rectangle12}, updates |-> {},
           detections |->
               { <<DetDog, [DetFlat EXCEPT !.bbox = <<6, 6, 10, 12>>], DetCar>>,
                 <<DetFlat, DetShort>>, <<DetCar>> },
           results |->
               { ErrorResult, OkResult(<<DetCar>>),
                 OkResult(<<DetDog, [DetFlat EXCEPT !.bbox = <<6, 6, 10, 12>>]>>) }])

CanvasScope ==
    [ids |-> MaxIds, history |-> MaxHistory, shapes |-> {}, updates |-> {},
     tools |-> {"select", "polygon"},
     pointerX |-> {8, 24}, pointerY |-> {8}, panButton |-> {FALSE, TRUE}]

\* the editor as mounted, explored within scope s
Started(s) == EditorInit /\ CanvasInit /\ EnvInit /\ scope = s

Init == Started(SessionScope)

(***************************************************************************)
(* Annotation store handlers.                                              *)
(***************************************************************************)
\* an add that files the annotation under the first label of the registry
addUnderTheFirstLabel(annotation) ==
    /\ Commit(Append(annotations,
                     [annotation EXCEPT !.labelId = defaultLabels[1].id]))

handleAnnotationAdd(annotation) ==
    /\ Commit(Append(annotations, annotation))

handleAnnotationDelete(id) ==
    /\ Commit(SelectSeq(annotations, LAMBDA a : a.id # id))
    /\ selectedAnnotationId' =
         IF selectedAnnotationId = id THEN Null ELSE selectedAnnotationId

handleAnnotationUpdate(id, updates) ==
    /\ Commit([i \in 1..Len(annotations) |->
                 IF annotations[i].id = id
                     THEN Merge(annotations[i], updates) ELSE annotations[i]])

(***************************************************************************)
(* Label registry handlers.                                                *)
(***************************************************************************)
handleLabelAdd(name, color) ==
    LET newLabel == [id |-> nextId, name |-> name, color |-> color]
    IN  /\ labels' = Append(labels, newLabel)
        /\ selectedLabelId' = newLabel.id
        /\ nextId' = nextId + 1

\* a variant of the cascade with the filter inverted
labelDeleteInverted(anns, labelId) ==
    SelectSeq(anns, LAMBDA a : LabelIdOf(a) = labelId)

labelDeleteAnnotations(anns, labelId) ==
    SelectSeq(anns, LAMBDA a : LabelIdOf(a) # labelId)

labelDeleteSelection(ls, selected, labelId) ==
    IF selected = labelId
    THEN (IF Len(ls) > 0 THEN ls[1].id ELSE Null)
    ELSE selected

handleLabelDelete(labelId) ==
    /\ labels' = SelectSeq(labels, LAMBDA l : l.id # labelId)
    /\ selectedLabelId' = labelDeleteSelection(labels, selectedLabelId, labelId)
    /\ Commit(labelDeleteAnnotations(annotations, labelId))

handleLabelColorChange(labelId, color) ==
    /\ labels' = [i \in 1..Len(labels) |->
                     IF labels[i].id = labelId
                         THEN Merge(labels[i], [color |-> color]) ELSE labels[i]]
    /\ Commit([i \in 1..Len(annotations) |->
                 IF LabelIdOf(annotations[i]) = labelId
                     THEN Merge(annotations[i], [color |-> color])
                     ELSE annotations[i]])

(***************************************************************************)
(* Undo and redo.                                                          *)
(***************************************************************************)
handleUndo ==
    LET r == undoResult(annotations, history, historyIndex)
    IN  /\ annotations' = r.annotations
        /\ historyIndex' = r.historyIndex
        /\ history' = history
        /\ imageAnnotations' =
             IF historyIndex > 0
             THEN SaveEffect(imageAnnotations, imageUrl, r.annotations)
             ELSE imageAnnotations

handleRedo ==
    LET r == redoResult(annotations, history, historyIndex)
    IN  /\ annotations' = r.annotations
        /\ historyIndex' = r.historyIndex
        /\ history' = history
        /\ imageAnnotations' =
             IF historyIndex < Len(history) - 1
             THEN SaveEffect(imageAnnotations, imageUrl, r.annotations)
             ELSE imageAnnotations

(***************************************************************************)
(* Session: navigation between images.                                     *)
(***************************************************************************)
\* saveCurrentImageAnnotations, as the functional update it queues
saveCurrentImageAnnotations(map) ==
    IF imageUrl # Null
    THEN [u \in DOMAIN map \cup {imageUrl} |->
             IF u = imageUrl THEN annotations ELSE map[u]]
    ELSE map

\* a load that forgets what is stored
loadNothing(url) == <<>>

loadImageAnnotations(url) ==
    IF url \in DOMAIN imageAnnotations THEN imageAnnotations[url] ELSE <<>>

\* a navigation that appends to the undo history instead of replacing it
navigateKeepingHistory(newIndex) ==
    LET newImageUrl == imageUrls[newIndex + 1]
        newAnnotations == loadImageAnnotations(newImageUrl)
        h == pushToHistory(history, historyIndex, newAnnotations)
    IN  /\ currentImageIndex' = newIndex
        /\ imageUrl' = newImageUrl
        /\ annotations' = newAnnotations
        /\ history' = h.history
        /\ historyIndex' = h.historyIndex
        /\ imageAnnotations' =
             SaveEffect(saveCurrentImageAnnotations(imageAnnotations),
                        newImageUrl, newAnnotations)
        /\ UNCHANGED <<imageUrls, isVideoMode>>

\* the body shared by handlePreviousImage and handleNextImage
NavigateTo(newIndex) ==
    LET newImageUrl == imageUrls[newIndex + 1]
        newAnnotations == loadImageAnnotations(newImageUrl)
    IN  /\ currentImageIndex' = newIndex
        /\ imageUrl' = newImageUrl
        /\ annotations' = newAnnotations
        /\ history' = <<newAnnotations>>
        /\ historyIndex' = 0
        /\ imageAnnotations' =
             SaveEffect(saveCurrentImageAnnotations(imageAnnotations),
                        newImageUrl, newAnnotations)
        /\ UNCHANGED <<imageUrls, isVideoMode>>

handlePreviousImage ==
    IF Len(imageUrls) > 0 /\ currentImageIndex > 0
    THEN NavigateTo(currentImageIndex - 1)
    ELSE UNCHANGED <<storeVars, sessionVars>>

handleNextImage ==
    IF Len(imageUrls) > 0 /\ currentImageIndex < Len(imageUrls) - 1
    THEN NavigateTo(currentImageIndex + 1)
    ELSE UNCHANGED <<storeVars, sessionVars>>

(***************************************************************************)
(* Session: uploads.                                                       *)
(***************************************************************************)
IsBlob(url) == url # Null /\ url < ServerUrlBase
CanCreateUrls(n) == nextUrl + n - 1 <= MaxUrls
NewUrls(n) == [i \in 1..n |-> nextUrl + i - 1]

cleanupObjectUrls(urls) == revoked \cup {u \in Range(urls) : IsBlob(u)}

handleBatchImageUpload(urls) ==
    /\ revoked' = cleanupObjectUrls(imageUrls)
    /\ imageUrls' = urls
    /\ currentImageIndex' = 0
    /\ isVideoMode' = FALSE
    /\ imageUrl' = urls[1]
    /\ annotations' = <<>>
    /\ history' = << <<>> >>
    /\ historyIndex' = 0
    /\ imageAnnotations' = SaveEffect([u \in Range(urls) |-> <<>>], urls[1], <<>>)

\* onImageUpload={setImageUrl}
onImageUpload(url) ==
    /\ imageUrl' = url
    /\ imageAnnotations' = SaveEffect(imageAnnotations, url, annotations)
    /\ UNCHANGED <<annotations, history, historyIndex, imageUrls,
                   currentImageIndex, isVideoMode>>

(***************************************************************************)
(* Detection merges: the loops that turn detections into rectangles.       *)
(***************************************************************************)
\* String.prototype.toLowerCase on the names that occur
toLowerCase(name) ==
    CASE name = "Car" -> "car"
      [] name = "Person" -> "person"
      [] name = "Traffic Sign" -> "traffic sign"
      [] name = "Dog" -> "dog"
      [] name = "Cat" -> "cat"
      [] OTHER -> name

\* Math.random colour of a synthesized label (one representative value)
RandomColor == "#a1b2c3"

\* ls.find(l => l.name.toLowerCase() === lower): the first match, or None
FindByName(ls, lower) ==
    LET hits == {i \in 1..Len(ls) : toLowerCase(ls[i].name) = lower}
    IN  IF hits = {} THEN None
        ELSE ls[CHOOSE i \in hits : \A j \in hits : i <= j]

\* a lookup by the exact spelling of the name
findLabelBySpelling(known, newLabels, name) ==
    LET all == known \o newLabels
        hits == {i \in 1..Len(all) : all[i].name = name}
    IN  IF hits = {} THEN None
        ELSE all[CHOOSE i \in hits : \A j \in hits : i <= j]

\* findLabel of handleAutoAnnotate / handleBatchAutoAnnotate:
\* known labels first, then the labels synthesized so far
findLabel(known, newLabels, name) ==
    LET lower == toLowerCase(name)
        a == FindByName(known, lower)
    IN  IF a # None THEN a ELSE FindByName(newLabels, lower)

BBoxValid(detection) == Len(detection.bbox) = 4

NewRectangle(id, bbox, labelId, color) ==
    [id |-> id, type |-> "rectangle", x |-> bbox[1], y |-> bbox[2],
     width |-> bbox[3] - bbox[1], height |-> bbox[4] - bbox[2],
     labelId |-> labelId, color |-> color]

\* one iteration of the for-loop of handleAutoAnnotate / handleBatchAutoAnnotate;
\* acc = [annotations, labels, next]: the rectangles and labels made so far and
\* the next identifier
MergeDetection(known, acc, detection) ==
    IF ~BBoxValid(detection) THEN acc
    ELSE
      LET existingLabel == findLabel(known, acc.labels, detection.class)
          labelId == IF existingLabel # None THEN existingLabel.id ELSE acc.next
          labelColor == IF existingLabel # None THEN existingLabel.color ELSE RandomColor
          next1 == IF existingLabel # None THEN acc.next ELSE acc.next + 1
          labels1 == IF existingLabel # None THEN acc.labels
                     ELSE Append(acc.labels,
                                 [id |-> labelId, name |-> detection.class,
                                  color |-> labelColor])
          width == detection.bbox[3] - detection.bbox[1]
          height == detection.bbox[4] - detection.bbox[2]
      IN  IF width <= 0 \/ height <= 0
          THEN [annotations |-> acc.annotations, labels |-> labels1, next |-> next1]
          ELSE [annotations |->
                    Append(acc.annotations,
                           NewRectangle(next1, detection.bbox, labelId, labelColor)),
                labels |-> labels1, next |-> next1 + 1]

RECURSIVE MergeDetections(_, _, _)
MergeDetections(known, acc, detections) ==
    IF detections = <<>> THEN acc
    ELSE MergeDetections(known, MergeDetection(known, acc, Head(detections)),
                         Tail(detections))

\* one iteration of the for-loop of handleFolderUploadWithDetection: the label
\* is resolved before the bbox is validated
FolderDetection(known, acc, detection) ==
    LET lower == toLowerCase(detection.class)
        inKnown == FindByName(known, lower)
        existingLabel == IF inKnown # None THEN inKnown
                         ELSE FindByName(acc.labels, lower)
        labelId == IF existingLabel # None THEN existingLabel.id ELSE acc.next
        labelColor == IF existingLabel # None THEN existingLabel.color ELSE RandomColor
        next1 == IF existingLabel # None THEN acc.next ELSE acc.next + 1
        labels1 == IF existingLabel # None THEN acc.labels
                   ELSE Append(acc.labels,
                               [id |-> labelId, name |-> detection.class,
                                color |-> labelColor])
        ok == /\ BBoxValid(detection)
              /\ detection.bbox[3] - detection.bbox[1] > 0
              /\ detection.bbox[4] - detection.bbox[2] > 0
    IN  IF ok
        THEN [annotations |->
                  Append(acc.annotations,
                         NewRectangle(next1, detection.bbox, labelId, labelColor)),
              labels |-> labels1, next |-> next1 + 1]
        ELSE [annotations |-> acc.annotations, labels |-> labels1, next |-> next1]

RECURSIVE FolderDetections(_, _, _)
FolderDetections(known, acc, detections) ==
    IF detections = <<>> THEN acc
    ELSE FolderDetections(known, FolderDetection(known, acc, Head(detections)),
                          Tail(detections))

(***************************************************************************)
(* Asynchronous detection handlers.  A request in flight is a record of    *)
(* the values its handler closed over when it was invoked.                 *)
(***************************************************************************)
RemoveAt(seq, i) == SubSeq(seq, 1, i - 1) \o SubSeq(seq, i + 1, Len(seq))
PendingRoom == Len(pending) < scope.pending
EmptyAcc == [annotations |-> <<>>, labels |-> <<>>, next |-> nextId]

\* handleAutoAnnotate up to its first await
handleAutoAnnotate ==
    IF imageUrl = Null \/ Len(labels) = 0
    THEN UNCHANGED <<isAutoAnnotating, pending>>
    ELSE /\ isAutoAnnotating' = TRUE
         /\ pending' = Append(pending,
                [kind |-> "single", imageUrl |-> imageUrl,
                 annotations |-> annotations, labels |-> labels,
                 history |-> history, historyIndex |-> historyIndex,
                 selectedLabelId |-> selectedLabelId])

\* handleAutoAnnotate after the response: the merge, with the closure c
autoAnnotateMerge(c, detections) ==
    LET m == MergeDetections(c.labels, EmptyAcc, detections)
        allAnnotations == c.annotations \o m.annotations
        h == pushToHistory(c.history, c.historyIndex, allAnnotations)
    IN  /\ labels' = IF m.labels # <<>> THEN labels \o m.labels ELSE labels
        /\ selectedLabelId' =
             IF m.labels # <<>> /\ c.selectedLabelId = Null
             THEN m.labels[1].id ELSE selectedLabelId
        /\ nextId' = m.next
        /\ IF m.annotations # <<>>
           THEN /\ annotations' = allAnnotations
                /\ history' = h.history
                /\ historyIndex' = h.historyIndex
                /\ imageAnnotations' =
                     SaveEffect(imageAnnotations, imageUrl, allAnnotations)
           ELSE UNCHANGED storeVars

\* a handler whose finally block is skipped
settledStillBusy(i) ==
    /\ isAutoAnnotating' = isAutoAnnotating
    /\ pending' = RemoveAt(pending, i)

\* the catch / finally of every detection handler
detectionFinally(i) ==
    /\ isAutoAnnotating' = FALSE
    /\ pending' = RemoveAt(pending, i)

\* handleBatchAutoAnnotate up to its first await
handleBatchAutoAnnotate ==
    IF Len(imageUrls) = 0 \/ Len(labels) = 0
    THEN UNCHANGED <<isAutoAnnotating, pending>>
    ELSE /\ isAutoAnnotating' = TRUE
         /\ pending' = Append(pending,
                [kind |-> "batch", imageUrl |-> imageUrl, imageUrls |-> imageUrls,
                 labels |-> labels, imageAnnotations |-> imageAnnotations])

\* data.results.forEach of handleBatchAutoAnnotate, from result k on;
\* acc = [map, total, allNewLabels, next]
RECURSIVE batchResults(_, _, _, _)
batchResults(c, results, k, acc) ==
    IF k > Len(results) THEN acc
    ELSE
      LET result == results[k]
          m == MergeDetections(c.labels \o acc.allNewLabels,
                               [annotations |-> <<>>, labels |-> <<>>,
                                next |-> acc.next],
                               result.detections)
          hasUrl == k <= Len(c.imageUrls)
          url == c.imageUrls[k]
      IN  IF result.error # "" THEN batchResults(c, results, k + 1, acc)
          ELSE batchResults(c, results, k + 1,
                 IF hasUrl
                 THEN [map |-> [u \in DOMAIN acc.map \cup {url} |->
                                   IF u = url THEN m.annotations ELSE acc.map[u]],
                       total |-> acc.total + Len(m.annotations),
                       allNewLabels |-> acc.allNewLabels \o m.labels,
                       next |-> m.next]
                 ELSE [acc EXCEPT !.next = m.next])

\* handleBatchAutoAnnotate after the response, with the closure c
batchAutoAnnotateMerge(c, results) ==
    LET r == batchResults(c, results, 1,
                 [map |-> c.imageAnnotations, total |-> 0,
                  allNewLabels |-> <<>>, next |-> nextId])
        currentAnnotations ==
            IF c.imageUrl \in DOMAIN r.map THEN r.map[c.imageUrl] ELSE <<>>
    IN  /\ nextId' = r.next
        /\ UNCHANGED selectedLabelId
        /\ IF r.total > 0
           THEN /\ labels' = labels \o r.allNewLabels
                /\ annotations' = currentAnnotations
                /\ history' = <<currentAnnotations>>
                /\ historyIndex' = 0
                /\ imageAnnotations' = SaveEffect(r.map, imageUrl, currentAnnotations)
           ELSE UNCHANGED <<labels, storeVars>>

\* handleFolderUploadWithDetection up to its first await (files is not empty
\* and holds at least one image file)
handleFolderUploadWithDetection ==
    /\ isAutoAnnotating' = TRUE
    /\ pending' = Append(pending,
           [kind |-> "folder", imageUrls |-> imageUrls, labels |-> labels])

\* newImageUrls.forEach of handleFolderUploadWithDetection, from image k on;
\* acc = [map, newLabels, next]
RECURSIVE folderResults(_, _, _, _, _)
folderResults(c, urls, results, k, acc) ==
    IF k > Len(urls) THEN acc
    ELSE
      LET usable == k <= Len(results) /\ results[k].error = ""
          m == FolderDetections(c.labels,
                                [annotations |-> <<>>, labels |-> acc.newLabels,
                                 next |-> acc.next],
                                IF usable THEN results[k].detections ELSE <<>>)
      IN  folderResults(c, urls, results, k + 1,
              [map |-> [u \in DOMAIN acc.map \cup {urls[k]} |->
                           IF u = urls[k] THEN m.annotations ELSE acc.map[u]],
               newLabels |-> m.labels,
               next |-> m.next])

\* firstResult.detections.map(...): objects that are no Annotation
initialAnnotations(detections) ==
    [i \in 1..Len(detections) |->
        [id |-> -i, class |-> detections[i].class,
         confidence |-> detections[i].confidence, bbox |-> detections[i].bbox,
         color |-> "#FF6B6B", label |-> detections[i].class]]

\* handleFolderUploadWithDetection after the response, with the closure c
folderUploadMerge(c, newImageUrls, results) ==
    LET r == folderResults(c, newImageUrls, results, 1,
                 [map |-> <<>>, newLabels |-> <<>>, next |-> nextId])
        first == IF Len(newImageUrls) > 0 THEN newImageUrls[1] ELSE Null
        stored == IF first \in DOMAIN r.map THEN r.map[first] ELSE <<>>
        autoFirst == Len(results) > 0 /\ results[1].error = ""
        initial == initialAnnotations(results[1].detections)
    IN  /\ nextId' = r.next
        /\ revoked' = cleanupObjectUrls(c.imageUrls)
        /\ labels' = IF r.newLabels # <<>> THEN labels \o r.newLabels ELSE labels
        /\ UNCHANGED selectedLabelId
        /\ imageUrls' = newImageUrls
        /\ currentImageIndex' = 0
        /\ isVideoMode' = FALSE
        /\ imageUrl' = first
        /\ annotations' = IF autoFirst THEN initial ELSE stored
        /\ history' = IF autoFirst THEN << <<>>, initial >> ELSE <<stored>>
        /\ historyIndex' = IF autoFirst THEN 1 ELSE 0
        /\ imageAnnotations' =
             SaveEffect(r.map, first, IF autoFirst THEN initial ELSE stored)

handleVideoUpload(url) ==
    /\ revoked' = cleanupObjectUrls(imageUrls)
    /\ imageUrl' = url
    /\ isVideoMode' = TRUE
    /\ imageUrls' = <<url>>
    /\ currentImageIndex' = 0
    /\ annotations' = <<>>
    /\ history' = << <<>> >>
    /\ historyIndex' = 0
    /\ imageAnnotations' = SaveEffect([u \in {url} |-> <<>>], url, <<>>)
    \* handleVideoFrameProcessing up to its first await
    /\ isAutoAnnotating' = TRUE
    /\ pending' = Append(pending, [kind |-> "video", imageUrl |-> url])

(***************************************************************************)
(* User and environment events of the editor.  Each is one handler         *)
(* invocation, guarded by what the rendered UI allows.                     *)
(***************************************************************************)
\* an event that is handled while requests may be in flight
Event ==
    /\ scope' = scope
    /\ pending = <<>> \/ sinceRequest < MaxInterleaved
    /\ sinceRequest' = IF pending = <<>> THEN 0 ELSE sinceRequest + 1

\* a request settles
Settle ==
    /\ scope' = scope
    /\ sinceRequest' = IF pending' = <<>> THEN 0 ELSE sinceRequest

TypeOf(a) == IF "type" \in DOMAIN a THEN a.type ELSE ""
AnnotationIds(anns) == {anns[i].id : i \in 1..Len(anns)}
RectangleIds(anns) == {anns[i].id : i \in {j \in 1..Len(anns) : TypeOf(anns[j]) = "rectangle"}}

getLabelColor(labelId) ==
    LET hits == {i \in 1..Len(labels) : labels[i].id = labelId}
    IN  IF hits = {} THEN "#3B82F6"
        ELSE labels[CHOOSE i \in hits : \A j \in hits : i <= j].color

\* the canvas can receive pointer events: an image is shown and loaded
CanvasReady == imageUrl # Null /\ image # None

Shapes == scope.shapes
Updates == scope.updates

PresetColors == {"#EC4899"}
NewLabelNames == {"Dog"}

\* the image element's onload
ImageOnLoad ==
    /\ imageUrl # Null /\ imageUrl \notin revoked /\ image = None
    /\ image' = [width |-> ImageWidth, height |-> ImageHeight]
    /\ lastOp' = "imageOnLoad"
    /\ Event
    /\ UNCHANGED <<currentTool, selectedAnnotationId, storeVars, labelVars,
                   sessionVars, viewVars, drawVars, panVars, dragVars,
                   resizeVars, envVars>>

\* handleFileUpload: "Upload Single Image" and "Change Image"
UploadSingle ==
    /\ CanCreateUrls(1)
    /\ onImageUpload(nextUrl)
    /\ nextUrl' = nextUrl + 1
    /\ lastOp' = "handleFileUpload"
    /\ Event
    /\ UNCHANGED <<currentTool, selectedAnnotationId, labelVars, viewVars,
                   canvasVars, nextId, revoked, pending, isAutoAnnotating>>

\* handleBatchFileUpload: only the upload screen (no image shown) offers it
UploadBatch ==
    /\ imageUrl = Null
    /\ \E n \in 1..MaxUrls :
          /\ CanCreateUrls(n)
          /\ handleBatchImageUpload(NewUrls(n))
          /\ nextUrl' = nextUrl + n
    /\ lastOp' = "handleBatchImageUpload"
    /\ Event
    /\ UNCHANGED <<currentTool, selectedAnnotationId, labelVars, viewVars,
                   canvasVars, nextId, pending, isAutoAnnotating>>

\* handleVideoUpload of the canvas: only the upload screen offers it
UploadVideo ==
    /\ imageUrl = Null
    /\ CanCreateUrls(1) /\ PendingRoom
    /\ handleVideoUpload(nextUrl)
    /\ nextUrl' = nextUrl + 1
    /\ lastOp' = "handleVideoUpload"
    /\ Event
    /\ UNCHANGED <<currentTool, selectedAnnotationId, labelVars, viewVars,
                   canvasVars, nextId>>

\* onAnnotationAdd from a drawing tool
AddAnnotation ==
    /\ CanvasReady /\ selectedLabelId # Null
    /\ CanGenerate(1) /\ HistoryRoom
    /\ \E shape \in Shapes :
          handleAnnotationAdd(
              Merge(shape, [id |-> nextId, labelId |-> selectedLabelId,
                            color |-> getLabelColor(selectedLabelId)]))
    /\ nextId' = nextId + 1
    /\ lastOp' = "handleAnnotationAdd"
    /\ Event
    /\ UNCHANGED <<currentTool, selectedAnnotationId, labelVars, sessionVars,
                   viewVars, canvasVars, nextUrl, revoked, pending,
                   isAutoAnnotating>>

\* onAnnotationUpdate from a drag or a resize of the selected rectangle
UpdateAnnotation ==
    /\ CanvasReady /\ HistoryRoom
    /\ selectedAnnotationId \in RectangleIds(annotations)
    /\ \E updates \in Updates : handleAnnotationUpdate(selectedAnnotationId, updates)
    /\ lastOp' = "handleAnnotationUpdate"
    /\ Event
    /\ UNCHANGED <<currentTool, selectedAnnotationId, labelVars, sessionVars,
                   viewVars, canvasVars, envVars>>

\* the sidebar lists the annotations of each label of the registry
SidebarAnnotationIds ==
    {annotations[i].id : i \in {j \in 1..Len(annotations) :
                                   LabelIdOf(annotations[j]) \in LabelIds(labels)}}

\* onAnnotationDelete from the sidebar, or Delete / Backspace on the selection
DeleteAnnotation ==
    /\ HistoryRoom
    /\ \E id \in SidebarAnnotationIds \cup ({selectedAnnotationId} \ {Null}) :
          handleAnnotationDelete(id)
    /\ lastOp' = "handleAnnotationDelete"
    /\ Event
    /\ UNCHANGED <<currentTool, labelVars, sessionVars, viewVars, canvasVars,
                   envVars>>

\* onAnnotationSelect from the sidebar
SelectAnnotation ==
    /\ \E id \in SidebarAnnotationIds :
          /\ id # selectedAnnotationId
          /\ selectedAnnotationId' = id
    /\ lastOp' = "onAnnotationSelect"
    /\ Event
    /\ UNCHANGED <<currentTool, storeVars, labelVars, sessionVars, viewVars,
                   canvasVars, envVars>>

\* onLabelSelect from the sidebar, or a number key
SelectLabel ==
    /\ \E id \in LabelIds(labels) :
          /\ id # selectedLabelId
          /\ selectedLabelId' = id
    /\ lastOp' = "onLabelSelect"
    /\ Event
    /\ UNCHANGED <<currentTool, selectedAnnotationId, storeVars, labels,
                   sessionVars, viewVars, canvasVars, envVars>>

AddLabel ==
    /\ CanGenerate(1)
    /\ \E name \in NewLabelNames, color \in PresetColors : handleLabelAdd(name, color)
    /\ lastOp' = "handleLabelAdd"
    /\ Event
    /\ UNCHANGED <<currentTool, selectedAnnotationId, storeVars, sessionVars,
                   viewVars, canvasVars, nextUrl, revoked, pending,
                   isAutoAnnotating>>

\* onLabelDelete from the sidebar, for a label among ids
DeleteLabelAmong(ids) ==
    /\ HistoryRoom
    /\ Len(labels) + MaxLabelDeletes > Len(defaultLabels)
    /\ \E id \in LabelIds(labels) \cap ids : handleLabelDelete(id)
    /\ lastOp' = "handleLabelDelete"
    /\ Event
    /\ UNCHANGED <<currentTool, selectedAnnotationId, sessionVars, viewVars,
                   canvasVars, envVars>>

\* onLabelColorChange from the sidebar, for a label among ids
ChangeLabelColorAmong(ids) ==
    /\ HistoryRoom
    /\ Cardinality({i \in 1..Len(labels) : labels[i].color \in PresetColors}) < MaxRecolored
    /\ \E id \in LabelIds(labels) \cap ids, color \in PresetColors :
          /\ getLabelColor(id) # color
          /\ handleLabelColorChange(id, color)
    /\ lastOp' = "handleLabelColorChange"
    /\ Event
    /\ UNCHANGED <<currentTool, selectedAnnotationId, selectedLabelId,
                   sessionVars, viewVars, canvasVars, envVars>>

\* the Undo button, or Ctrl/Cmd+Z (which is never disabled)
Undo ==
    /\ handleUndo
    /\ lastOp' = "handleUndo"
    /\ Event
    /\ UNCHANGED <<currentTool, selectedAnnotationId, labelVars, sessionVars,
                   viewVars, canvasVars, envVars>>

\* the Redo button, Ctrl/Cmd+Shift+Z or Ctrl/Cmd+Y
Redo ==
    /\ handleRedo
    /\ lastOp' = "handleRedo"
    /\ Event
    /\ UNCHANGED <<currentTool, selectedAnnotationId, labelVars, sessionVars,
                   viewVars, canvasVars, envVars>>

PreviousImage ==
    /\ handlePreviousImage
    /\ lastOp' = "handlePreviousImage"
    /\ Event
    /\ UNCHANGED <<currentTool, selectedAnnotationId, labelVars, viewVars,
                   canvasVars, envVars>>

NextImage ==
    /\ handleNextImage
    /\ lastOp' = "handleNextImage"
    /\ Event
    /\ UNCHANGED <<currentTool, selectedAnnotationId, labelVars, viewVars,
                   canvasVars, envVars>>

(***************************************************************************)
(* Detection events: the toolbar buttons and the answers of the service.   *)
(***************************************************************************)
\* an Auto Annotate button that stays enabled while a request is in flight
autoAnnotateWhileBusy ==
    /\ imageUrl # Null /\ PendingRoom
    /\ handleAutoAnnotate
    /\ lastOp' = "handleAutoAnnotate"
    /\ Event
    /\ UNCHANGED <<currentTool, selectedAnnotationId, storeVars, labelVars,
                   sessionVars, viewVars, canvasVars, nextId, nextUrl, revoked>>

\* the Auto Annotate button: disabled={!canAutoAnnotate || isAutoAnnotating}
AutoAnnotate ==
    /\ imageUrl # Null /\ ~isAutoAnnotating /\ PendingRoom
    /\ handleAutoAnnotate
    /\ lastOp' = "handleAutoAnnotate"
    /\ Event
    /\ UNCHANGED <<currentTool, selectedAnnotationId, storeVars, labelVars,
                   sessionVars, viewVars, canvasVars, nextId, nextUrl, revoked>>

\* a failure handling that would drop the displayed annotations
autoAnnotateFailsAndClears ==
    /\ \E i \in 1..Len(pending) :
          /\ pending[i].kind = "single"
          /\ detectionFinally(i)
    /\ annotations' = <<>>
    /\ history' = << <<>> >>
    /\ historyIndex' = 0
    /\ imageAnnotations' = SaveEffect(imageAnnotations, imageUrl, <<>>)
    /\ lastOp' = "handleAutoAnnotate:failed"
    /\ Settle
    /\ UNCHANGED <<currentTool, selectedAnnotationId, labelVars, sessionVars,
                   viewVars, canvasVars, nextId, nextUrl, revoked>>

\* the image fetch or the detection request fails: catch, finally
AutoAnnotateFails ==
    /\ \E i \in 1..Len(pending) :
          /\ pending[i].kind = "single"
          /\ detectionFinally(i)
    /\ lastOp' = "handleAutoAnnotate:failed"
    /\ Settle
    /\ UNCHANGED <<currentTool, selectedAnnotationId, storeVars, labelVars,
                   sessionVars, viewVars, canvasVars, nextId, nextUrl, revoked>>

\* the detection response arrives (a revoked object URL cannot be fetched)
AutoAnnotateResponds ==
    /\ \E i \in 1..Len(pending), detections \in scope.detections :
          /\ pending[i].kind = "single"
          /\ pending[i].imageUrl \notin revoked
          /\ LET m == MergeDetections(pending[i].labels, EmptyAcc, detections)
             IN  m.next <= FirstUuid + scope.ids
          /\ Len(pending[i].history) < scope.history
          /\ autoAnnotateMerge(pending[i], detections)
          /\ detectionFinally(i)
    /\ lastOp' = "handleAutoAnnotate:merged"
    /\ Settle
    /\ UNCHANGED <<currentTool, selectedAnnotationId, sessionVars, viewVars,
                   canvasVars, nextUrl, revoked>>

\* the Batch Auto Annotate button:
\* shown when canBatchAutoAnnotate, disabled={isAutoAnnotating}
BatchAutoAnnotate ==
    /\ Len(imageUrls) > 1 /\ ~isAutoAnnotating /\ PendingRoom
    /\ handleBatchAutoAnnotate
    /\ lastOp' = "handleBatchAutoAnnotate"
    /\ Event
    /\ UNCHANGED <<currentTool, selectedAnnotationId, storeVars, labelVars,
                   sessionVars, viewVars, canvasVars, nextId, nextUrl, revoked>>

\* no image could be fetched, or the batch request fails
BatchAutoAnnotateFails ==
    /\ \E i \in 1..Len(pending) :
          /\ pending[i].kind = "batch"
          /\ detectionFinally(i)
    /\ lastOp' = "handleBatchAutoAnnotate:failed"
    /\ Settle
    /\ UNCHANGED <<currentTool, selectedAnnotationId, storeVars, labelVars,
                   sessionVars, viewVars, canvasVars, nextId, nextUrl, revoked>>

\* the images whose fetch can be fulfilled, and the results for those sent
Fetchable(c) == {k \in 1..Len(c.imageUrls) : c.imageUrls[k] \notin revoked}
ResultSeqs(n) == [1..n -> scope.results]

BatchAutoAnnotateResponds ==
    /\ \E i \in 1..Len(pending) :
          /\ pending[i].kind = "batch"
          /\ \E fetched \in (SUBSET Fetchable(pending[i])) \ {{}} :
             \E results \in ResultSeqs(Cardinality(fetched)) :
                /\ LET r == batchResults(pending[i], results, 1,
                               [map |-> pending[i].imageAnnotations, total |-> 0,
                                allNewLabels |-> <<>>, next |-> nextId])
                   IN  r.next <= FirstUuid + scope.ids
                /\ batchAutoAnnotateMerge(pending[i], results)
          /\ detectionFinally(i)
    /\ lastOp' = "handleBatchAutoAnnotate:merged"
    /\ Settle
    /\ UNCHANGED <<currentTool, selectedAnnotationId, sessionVars, viewVars,
                   canvasVars, nextUrl, revoked>>

\* the video request settles: only the busy flag (and videoFrames) change
VideoProcessingSettles ==
    /\ \E i \in 1..Len(pending) :
          /\ pending[i].kind = "video"
          /\ detectionFinally(i)
    /\ lastOp' = "handleVideoFrameProcessing:settled"
    /\ Settle
    /\ UNCHANGED <<currentTool, selectedAnnotationId, storeVars, labelVars,
                   sessionVars, viewVars, canvasVars, nextId, nextUrl, revoked>>

\* onFolderUpload: only the upload screen (no image shown) offers it
UploadFolder ==
    /\ imageUrl = Null /\ PendingRoom
    /\ handleFolderUploadWithDetection
    /\ lastOp' = "handleFolderUploadWithDetection"
    /\ Event
    /\ UNCHANGED <<currentTool, selectedAnnotationId, storeVars, labelVars,
                   sessionVars, viewVars, canvasVars, nextId, nextUrl, revoked>>

\* a folder without image files: setIsAutoAnnotating(true), the early return
\* inside try, then finally, all before the handler yields
UploadFolderWithoutImages ==
    /\ imageUrl = Null
    /\ isAutoAnnotating' = FALSE
    /\ lastOp' = "handleFolderUploadWithDetection:noImages"
    /\ Event
    /\ UNCHANGED <<currentTool, selectedAnnotationId, storeVars, labelVars,
                   sessionVars, viewVars, canvasVars, nextId, nextUrl, revoked,
                   pending>>

FolderUploadFails ==
    /\ \E i \in 1..Len(pending) :
          /\ pending[i].kind = "folder"
          /\ detectionFinally(i)
    /\ lastOp' = "handleFolderUploadWithDetection:failed"
    /\ Settle
    /\ UNCHANGED <<currentTool, selectedAnnotationId, storeVars, labelVars,
                   sessionVars, viewVars, canvasVars, nextId, nextUrl, revoked>>

\* the URLs the backend serves the images of a folder under
ServerUrls(n) == [k \in 1..n |-> ServerUrlBase + k]

FolderUploadResponds ==
    /\ \E i \in 1..Len(pending), n \in 0..MaxUrls :
          /\ pending[i].kind = "folder"
          /\ \E results \in ResultSeqs(n) :
                /\ LET r == folderResults(pending[i], ServerUrls(n), results, 1,
                               [map |-> <<>>, newLabels |-> <<>>, next |-> nextId])
                   IN  r.next <= FirstUuid + scope.ids
                /\ folderUploadMerge(pending[i], ServerUrls(n), results)
          /\ detectionFinally(i)
    \* the canvas effect on imageUrl: no URL, no image
    /\ image' = IF imageUrl' = Null THEN None ELSE image
    /\ lastOp' = "handleFolderUploadWithDetection:merged"
    /\ Settle
    /\ UNCHANGED <<currentTool, selectedAnnotationId, viewVars, drawVars,
                   panVars, dragVars, resizeVars, nextUrl>>

(***************************************************************************)
(* AnnotationCanvas: geometry.  Pointer events carry canvas coordinates    *)
(* (clientX - rect.left).  Coordinates are integers; a division by zoom    *)
(* is exact while zoom is ZoomUnit, the only zoom the canvas events below  *)
(* are explored at.                                                        *)
(***************************************************************************)
\* imgX / imgY: where the image's corner is drawn on the canvas
imageOrigin(canvasSize, imageSize, panOffset) ==
    (canvasSize - (imageSize * zoom) \div ZoomUnit) \div 2 + panOffset

imgX == imageOrigin(CanvasWidth, image.width, pan.x)
imgY == imageOrigin(CanvasHeight, image.height, pan.y)

\* a conversion that does not reject positions outside the image
getCoordinatesUnchecked(canvasX, canvasY) ==
    IF image = None THEN None
    ELSE [x |-> ((canvasX - imgX) * ZoomUnit) \div zoom,
          y |-> ((canvasY - imgY) * ZoomUnit) \div zoom]

getImageCoordinates(canvasX, canvasY) ==
    IF image = None THEN None
    ELSE LET x == ((canvasX - imgX) * ZoomUnit) \div zoom
             y == ((canvasY - imgY) * ZoomUnit) \div zoom
         IN  IF x < 0 \/ x > image.width \/ y < 0 \/ y > image.height
             THEN None
             ELSE [x |-> x, y |-> y]

handleSize == 8

\* the handles of a rectangle, in the order they are tested
resizeHandles(annotation) ==
    LET left   == (annotation.x * zoom) \div ZoomUnit + imgX - handleSize \div 2
        right  == ((annotation.x + annotation.width) * zoom) \div ZoomUnit
                      + imgX - handleSize \div 2
        top    == (annotation.y * zoom) \div ZoomUnit + imgY - handleSize \div 2
        bottom == ((annotation.y + annotation.height) * zoom) \div ZoomUnit
                      + imgY - handleSize \div 2
    IN  << [name |-> "nw", x |-> left,  y |-> top],
           [name |-> "ne", x |-> right, y |-> top],
           [name |-> "sw", x |-> left,  y |-> bottom],
           [name |-> "se", x |-> right, y |-> bottom] >>

getResizeHandleAt(x, y, annotation) ==
    LET handles == resizeHandles(annotation)
        hits == {i \in 1..Len(handles) :
                    /\ x >= handles[i].x /\ x <= handles[i].x + handleSize
                    /\ y >= handles[i].y /\ y <= handles[i].y + handleSize}
    IN  IF hits = {} THEN ""
        ELSE handles[CHOOSE i \in hits : \A j \in hits : i <= j].name

\* annotations.find(a => a.type === 'rectangle' && coords lie in a): its index, or 0
clickedIndex(coords) ==
    LET hits == {i \in 1..Len(annotations) :
                    /\ TypeOf(annotations[i]) = "rectangle"
                    /\ coords.x >= annotations[i].x
                    /\ coords.x <= annotations[i].x + annotations[i].width
                    /\ coords.y >= annotations[i].y
                    /\ coords.y <= annotations[i].y + annotations[i].height}
    IN  IF hits = {} THEN 0 ELSE CHOOSE i \in hits : \A j \in hits : i <= j

\* annotations.find(a => a.id === selectedAnnotationId): its index, or 0
selectedIndex ==
    LET hits == {i \in 1..Len(annotations) : annotations[i].id = selectedAnnotationId}
    IN  IF hits = {} THEN 0 ELSE CHOOSE i \in hits : \A j \in hits : i <= j

\* the rectangle a drag moves: clamped so that it stays inside the image
draggedTo(annotation, dx, dy) ==
    [x |-> Max(0, Min(annotation.x + dx, image.width - annotation.width)),
     y |-> Max(0, Min(annotation.y + dy, image.height - annotation.height))]

minResizeSize == 10

\* a variant of the resize without the minimum size
resizedFreely(handle, bounds, dx, dy) ==
    LET newWidth ==
            IF handle \in {"se", "ne"} THEN bounds.width + dx ELSE bounds.width - dx
        newHeight ==
            IF handle \in {"se", "sw"} THEN bounds.height + dy ELSE bounds.height - dy
        newX == IF handle \in {"sw", "nw"} THEN bounds.x + dx ELSE bounds.x
        newY == IF handle \in {"ne", "nw"} THEN bounds.y + dy ELSE bounds.y
    IN  [x |-> Max(0, Min(newX, image.width - newWidth)),
         y |-> Max(0, Min(newY, image.height - newHeight)),
         width |-> newWidth, height |-> newHeight]

\* the rectangle a resize with one of the four handles yields
resizedTo(handle, bounds, dx, dy) ==
    LET newWidth ==
            IF handle \in {"se", "ne"} THEN Max(minResizeSize, bounds.width + dx)
            ELSE IF handle \in {"sw", "nw"} THEN Max(minResizeSize, bounds.width - dx)
            ELSE bounds.width
        newHeight ==
            IF handle \in {"se", "sw"} THEN Max(minResizeSize, bounds.height + dy)
            ELSE IF handle \in {"ne", "nw"} THEN Max(minResizeSize, bounds.height - dy)
            ELSE bounds.height
        newX == IF handle \in {"sw", "nw"} THEN bounds.x + dx ELSE bounds.x
        newY == IF handle \in {"ne", "nw"} THEN bounds.y + dy ELSE bounds.y
    IN  [x |-> Max(0, Min(newX, image.width - newWidth)),
         y |-> Max(0, Min(newY, image.height - newHeight)),
         width |-> newWidth, height |-> newHeight]

minDrawSize == 5

\* variants of the rectangle tool: one that accepts a side of exactly
\* minDrawSize, one that anchors the rectangle at the start point
drawnRectangleInclusive(start, current) ==
    LET width == Abs(current.x - start.x)
        height == Abs(current.y - start.y)
    IN  IF width >= minDrawSize /\ height >= minDrawSize
        THEN [type |-> "rectangle", x |-> Min(start.x, current.x),
              y |-> Min(start.y, current.y), width |-> width, height |-> height]
        ELSE None

drawnRectangleAnchored(start, current) ==
    LET width == Abs(current.x - start.x)
        height == Abs(current.y - start.y)
    IN  IF width > minDrawSize /\ height > minDrawSize
        THEN [type |-> "rectangle", x |-> start.x, y |-> start.y,
              width |-> width, height |-> height]
        ELSE None

\* the rectangle the rectangle tool commits on pointer-up, None when too small
drawnRectangle(start, current) ==
    LET x == Min(start.x, current.x)
        y == Min(start.y, current.y)
        width == Abs(current.x - start.x)
        height == Abs(current.y - start.y)
    IN  IF width > minDrawSize /\ height > minDrawSize
        THEN [type |-> "rectangle", x |-> x, y |-> y,
              width |-> width, height |-> height]
        ELSE None

(***************************************************************************)
(* AnnotationCanvas: pointer handlers.  cx, cy are the canvas coordinates  *)
(* of the event; panButton says it came from the middle button or from     *)
(* the left button with Alt held.                                          *)
(***************************************************************************)
\* state no canvas handler writes
canvasFixed == <<currentTool, labelVars, sessionVars, zoom, image, nextUrl,
                 revoked, pending, isAutoAnnotating>>

mouseDownSelect(coords, cx, cy) ==
    LET k == clickedIndex(coords)
        clicked == annotations[k]
        handle == getResizeHandleAt(cx, cy, clicked)
    IN  IF k = 0
        THEN /\ selectedAnnotationId' = Null
             /\ lastOp' = "handleMouseDown:deselect"
             /\ UNCHANGED <<dragVars, resizeVars>>
        ELSE IF handle # ""
        THEN /\ isResizing' = TRUE
             /\ resizeHandle' = handle
             /\ resizeStart' = coords
             /\ originalBounds' = [x |-> clicked.x, y |-> clicked.y,
                                   width |-> clicked.width,
                                   height |-> clicked.height]
             /\ selectedAnnotationId' = clicked.id
             /\ lastOp' = "handleMouseDown:resize"
             /\ UNCHANGED dragVars
        ELSE /\ isDragging' = TRUE
             /\ dragStart' = coords
             /\ dragOffset' = [x |-> coords.x - clicked.x, y |-> coords.y - clicked.y]
             /\ selectedAnnotationId' = clicked.id
             /\ lastOp' = "handleMouseDown:drag"
             /\ UNCHANGED resizeVars

handleMouseDown(cx, cy, panButton) ==
    LET coords == getImageCoordinates(cx, cy)
    IN  /\ UNCHANGED <<canvasFixed, pan>>
        /\ IF panButton
           THEN /\ isPanning' = TRUE
                /\ lastPanPoint' = [x |-> cx, y |-> cy]
                /\ lastOp' = "handleMouseDown:pan"
                /\ UNCHANGED <<selectedAnnotationId, storeVars, drawVars,
                               dragVars, resizeVars, nextId>>
           ELSE IF coords = None
           THEN /\ lastOp' = "handleMouseDown:outside"
                /\ UNCHANGED <<selectedAnnotationId, storeVars, drawVars,
                               panVars, dragVars, resizeVars, nextId>>
           ELSE IF currentTool = "select"
           THEN /\ mouseDownSelect(coords, cx, cy)
                /\ UNCHANGED <<storeVars, drawVars, panVars, nextId>>
           ELSE IF currentTool = "rectangle" /\ selectedLabelId # Null
           THEN /\ isDrawing' = TRUE
                /\ startPoint' = coords
                /\ currentPoint' = coords
                /\ lastOp' = "handleMouseDown:rectangle"
                /\ UNCHANGED <<selectedAnnotationId, storeVars, polygonPoints,
                               panVars, dragVars, resizeVars, nextId>>
           ELSE IF currentTool = "point" /\ selectedLabelId # Null
           THEN /\ CanGenerate(1) /\ HistoryRoom
                /\ handleAnnotationAdd(
                       [id |-> nextId, type |-> "point",
                        x |-> coords.x, y |-> coords.y,
                        labelId |-> selectedLabelId,
                        color |-> getLabelColor(selectedLabelId)])
                /\ nextId' = nextId + 1
                /\ lastOp' = "handleMouseDown:point"
                /\ UNCHANGED <<selectedAnnotationId, drawVars, panVars,
                               dragVars, resizeVars>>
           ELSE IF currentTool = "polygon" /\ selectedLabelId # Null
           THEN /\ Len(polygonPoints) < MaxPolygonPoints
                /\ polygonPoints' = Append(polygonPoints, coords)
                /\ lastOp' = "handleMouseDown:polygon"
                /\ UNCHANGED <<selectedAnnotationId, storeVars, isDrawing,
                               startPoint, currentPoint, panVars, dragVars,
                               resizeVars, nextId>>
           ELSE /\ lastOp' = "handleMouseDown:ignored"
                /\ UNCHANGED <<selectedAnnotationId, storeVars, drawVars,
                               panVars, dragVars, resizeVars, nextId>>

handleMouseMove(cx, cy) ==
    LET coords == getImageCoordinates(cx, cy)
        k == selectedIndex
        annotation == annotations[k]
        isRectangle == k # 0 /\ TypeOf(annotation) = "rectangle"
    IN  /\ UNCHANGED <<canvasFixed, selectedAnnotationId, nextId, isPanning,
                       isDrawing, startPoint, polygonPoints, isDragging,
                       dragOffset, resizeVars>>
        /\ IF isPanning /\ lastPanPoint # None
           THEN /\ Abs(pan.x + (cx - lastPanPoint.x)) <= MaxPan
                /\ Abs(pan.y + (cy - lastPanPoint.y)) <= MaxPan
                /\ pan' = [x |-> pan.x + (cx - lastPanPoint.x),
                           y |-> pan.y + (cy - lastPanPoint.y)]
                /\ lastPanPoint' = [x |-> cx, y |-> cy]
                /\ lastOp' = "handleMouseMove:pan"
                /\ UNCHANGED <<storeVars, currentPoint, dragStart>>
           ELSE IF coords = None
           THEN /\ lastOp' = "handleMouseMove:outside"
                /\ UNCHANGED <<storeVars, pan, lastPanPoint, currentPoint, dragStart>>
           ELSE IF isDragging /\ selectedAnnotationId # Null /\ dragStart # None
           THEN /\ IF isRectangle
                   THEN /\ HistoryRoom
                        /\ handleAnnotationUpdate(selectedAnnotationId,
                               draggedTo(annotation, coords.x - dragStart.x,
                                                     coords.y - dragStart.y))
                        /\ dragStart' = coords
                   ELSE UNCHANGED <<storeVars, dragStart>>
                /\ lastOp' = "handleMouseMove:drag"
                /\ UNCHANGED <<pan, lastPanPoint, currentPoint>>
           ELSE IF /\ isResizing /\ selectedAnnotationId # Null
                   /\ resizeStart # None /\ originalBounds # None
           THEN /\ IF isRectangle
                   THEN /\ HistoryRoom
                        /\ handleAnnotationUpdate(selectedAnnotationId,
                               resizedTo(resizeHandle, originalBounds,
                                         coords.x - resizeStart.x,
                                         coords.y - resizeStart.y))
                   ELSE UNCHANGED storeVars
                /\ lastOp' = "handleMouseMove:resize"
                /\ UNCHANGED <<pan, lastPanPoint, currentPoint, dragStart>>
           ELSE /\ currentPoint' = coords
                /\ lastOp' = "handleMouseMove:point"
                /\ UNCHANGED <<storeVars, pan, lastPanPoint, dragStart>>

\* handleMouseUp, also bound to onMouseLeave
handleMouseUp ==
    LET drawing == /\ isDrawing /\ startPoint # None /\ currentPoint # None
                   /\ selectedLabelId # Null
        rectangle == drawnRectangle(startPoint, currentPoint)
    IN  /\ UNCHANGED <<canvasFixed, selectedAnnotationId, pan, currentPoint,
                       polygonPoints>>
        /\ IF isPanning
           THEN /\ isPanning' = FALSE
                /\ lastPanPoint' = None
                /\ lastOp' = "handleMouseUp:pan"
                /\ UNCHANGED <<storeVars, isDrawing, startPoint, dragVars,
                               resizeVars, nextId>>
           ELSE IF isDragging
           THEN /\ isDragging' = FALSE
                /\ dragStart' = None
                /\ dragOffset' = [x |-> 0, y |-> 0]
                /\ lastOp' = "handleMouseUp:drag"
                /\ UNCHANGED <<storeVars, isDrawing, startPoint, panVars,
                               resizeVars, nextId>>
           ELSE IF isResizing
           THEN /\ isResizing' = FALSE
                /\ resizeHandle' = ""
                /\ resizeStart' = None
                /\ originalBounds' = None
                /\ lastOp' = "handleMouseUp:resize"
                /\ UNCHANGED <<storeVars, isDrawing, startPoint, panVars,
                               dragVars, nextId>>
           ELSE /\ IF drawing /\ rectangle # None
                   THEN /\ CanGenerate(1) /\ HistoryRoom
                        /\ handleAnnotationAdd(
                               Merge(rectangle,
                                     [id |-> nextId, labelId |-> selectedLabelId,
                                      color |-> getLabelColor(selectedLabelId)]))
                        /\ nextId' = nextId + 1
                        /\ lastOp' = "handleMouseUp:rectangle"
                   ELSE /\ lastOp' = IF drawing THEN "handleMouseUp:small"
                                     ELSE "handleMouseUp:idle"
                        /\ UNCHANGED <<storeVars, nextId>>
                /\ isDrawing' = FALSE
                /\ startPoint' = None
                /\ UNCHANGED <<panVars, dragVars, resizeVars>>

\* a polygon closed on fewer vertices than the code asks for
canClosePolygonOfTwo(points) == Len(points) >= 2

\* polygonPoints.length >= 3
canClosePolygon(points) == Len(points) >= 3

handleDoubleClick ==
    /\ UNCHANGED <<canvasFixed, selectedAnnotationId, pan, isDrawing,
                   startPoint, currentPoint, panVars, dragVars, resizeVars>>
    /\ IF /\ currentTool = "polygon" /\ canClosePolygon(polygonPoints)
          /\ selectedLabelId # Null
       THEN /\ CanGenerate(1) /\ HistoryRoom
            /\ handleAnnotationAdd(
                   [id |-> nextId, type |-> "polygon", points |-> polygonPoints,
                    labelId |-> selectedLabelId,
                    color |-> getLabelColor(selectedLabelId)])
            /\ nextId' = nextId + 1
            /\ polygonPoints' = <<>>
            /\ lastOp' = "handleDoubleClick:polygon"
       ELSE /\ lastOp' = "handleDoubleClick:ignored"
            /\ UNCHANGED <<storeVars, nextId, polygonPoints>>

\* the canvas's keydown listener, for the Escape key
handleKeyDown ==
    /\ polygonPoints' = <<>>
    /\ isDrawing' = FALSE
    /\ lastOp' = "handleKeyDown:Escape"
    /\ UNCHANGED <<canvasFixed, selectedAnnotationId, storeVars, pan,
                   startPoint, currentPoint, panVars, dragVars, resizeVars,
                   nextId>>

(***************************************************************************)
(* Pointer and keyboard events of the canvas.                              *)
(***************************************************************************)
\* onToolChange={setCurrentTool}: the toolbar, or the keys v, r, p, o
SetTool ==
    /\ \E tool \in scope.tools :
          /\ tool # currentTool
          /\ currentTool' = tool
    /\ lastOp' = "onToolChange"
    /\ Event
    /\ UNCHANGED <<selectedAnnotationId, storeVars, labelVars, sessionVars,
                   viewVars, canvasVars, envVars>>

\* the zoom buttons of the toolbar and the wheel of the canvas.  zoom is kept
\* in thousandths: the product zoom * 1.2 and the quotient zoom / 1.2 are
\* rounded to the nearest thousandth.
zoomInUnclamped ==
    /\ zoom' = (zoom * 12 + 5) \div 10
    /\ lastOp' = "handleZoomIn"
    /\ Event
    /\ UNCHANGED <<currentTool, selectedAnnotationId, storeVars, labelVars,
                   sessionVars, pan, canvasVars, envVars>>

\* handleZoomIn: setZoom(Math.min(zoom * 1.2, 5))
ZoomIn ==
    /\ zoom' = Min((zoom * 12 + 5) \div 10, 5 * ZoomUnit)
    /\ lastOp' = "handleZoomIn"
    /\ Event
    /\ UNCHANGED <<currentTool, selectedAnnotationId, storeVars, labelVars,
                   sessionVars, pan, canvasVars, envVars>>

\* handleZoomOut: setZoom(Math.max(zoom / 1.2, 0.1))
ZoomOut ==
    /\ zoom' = Max((zoom * 10 + 6) \div 12, ZoomUnit \div 10)
    /\ lastOp' = "handleZoomOut"
    /\ Event
    /\ UNCHANGED <<currentTool, selectedAnnotationId, storeVars, labelVars,
                   sessionVars, pan, canvasVars, envVars>>

\* handleFitToScreen
FitToScreen ==
    /\ zoom' = ZoomUnit
    /\ pan' = [x |-> 0, y |-> 0]
    /\ lastOp' = "handleFitToScreen"
    /\ Event
    /\ UNCHANGED <<currentTool, selectedAnnotationId, storeVars, labelVars,
                   sessionVars, canvasVars, envVars>>

\* the canvas element is rendered once an image is chosen
MouseDown ==
    /\ imageUrl # Null
    /\ \E cx \in scope.pointerX, cy \in scope.pointerY, panButton \in scope.panButton :
          handleMouseDown(cx, cy, panButton)
    /\ Event

MouseMove ==
    /\ imageUrl # Null
    /\ \E cx \in scope.pointerX, cy \in scope.pointerY : handleMouseMove(cx, cy)
    /\ Event

MouseUp ==
    /\ imageUrl # Null
    /\ handleMouseUp
    /\ Event

DoubleClick ==
    /\ imageUrl # Null
    /\ handleDoubleClick
    /\ Event

Escape ==
    /\ handleKeyDown
    /\ Event

(***************************************************************************)
(* The editor as wired to the canvas and the sidebar, with the abstract    *)
(* edit events standing for the canvas gestures.  Label events are aimed   *)
(* at the active label here; SpecStore aims them at every label.  The      *)
(* canvas never receives onFolderUpload (it is not among the props it      *)
(* destructures), so the folder handler is part of SpecEditor only: the    *)
(* editor with every handler it passes down invocable.                     *)
(***************************************************************************)
Next ==
    \/ ImageOnLoad \/ UploadSingle \/ UploadBatch \/ UploadVideo
    \/ AddAnnotation \/ UpdateAnnotation \/ DeleteAnnotation \/ SelectAnnotation
    \/ DeleteLabelAmong({selectedLabelId})
    \/ Undo \/ Redo \/ PreviousImage \/ NextImage
    \/ AutoAnnotate \/ AutoAnnotateFails \/ AutoAnnotateResponds
    \/ BatchAutoAnnotate \/ BatchAutoAnnotateFails \/ BatchAutoAnnotateResponds
    \/ VideoProcessingSettles

Spec == Init /\ [][Next]_vars

\* the same, with room for a second request in flight
SpecBusy ==
    /\ Started([SessionScope EXCEPT !.pending = MaxPending + 1])
    /\ [][Next]_vars

NextEditor == Next \/ UploadFolder \/ FolderUploadFails \/ FolderUploadResponds

SpecEditor == Init /\ [][NextEditor]_vars

\* the editor with the folder handler, and a folder without image files among
\* its inputs.  Every fetch settles (it resolves or rejects) and the event
\* loop then runs the handler's continuation: weak fairness of the settling
\* steps of each kind of request.
SpecFair ==
    /\ Started([SessionScope EXCEPT
                   !.detections = { <<DetCar>> },
                   !.results = { OkResult(<<DetCar>>) }])
    /\ [][NextEditor \/ UploadFolderWithoutImages]_vars
    /\ WF_vars(AutoAnnotateFails \/ AutoAnnotateResponds)
    /\ WF_vars(BatchAutoAnnotateFails \/ BatchAutoAnnotateResponds)
    /\ WF_vars(FolderUploadFails \/ FolderUploadResponds)
    /\ WF_vars(VideoProcessingSettles)

(***************************************************************************)
(* A session of two images: the state after a batch upload of two images,  *)
(* once the first image has loaded.  stored is what the first image holds: *)
(* empty right after the upload, or annotations made earlier, as shown     *)
(* again after navigating to the second image and back.                    *)
(***************************************************************************)
Loaded(stored, s) ==
    /\ currentTool = "select"
    /\ selectedLabelId = defaultLabels[1].id
    /\ selectedAnnotationId = Null
    /\ annotations = stored
    /\ imageAnnotations = [u \in {1, 2} |-> IF u = 1 THEN stored ELSE <<>>]
    /\ labels = defaultLabels
    /\ zoom = ZoomUnit
    /\ pan = [x |-> 0, y |-> 0]
    /\ imageUrl = 1
    /\ imageUrls = <<1, 2>>
    /\ currentImageIndex = 0
    /\ isVideoMode = FALSE
    /\ history = <<stored>>
    /\ historyIndex = 0
    /\ isAutoAnnotating = FALSE
    /\ image = [width |-> ImageWidth, height |-> ImageHeight]
    /\ isDrawing = FALSE
    /\ startPoint = None
    /\ currentPoint = None
    /\ polygonPoints = <<>>
    /\ isPanning = FALSE
    /\ lastPanPoint = None
    /\ isDragging = FALSE
    /\ dragStart = None
    /\ dragOffset = [x |-> 0, y |-> 0]
    /\ isResizing = FALSE
    /\ resizeHandle = ""
    /\ resizeStart = None
    /\ originalBounds = None
    /\ nextId = FirstUuid + Len(stored)
    /\ nextUrl = 3
    /\ revoked = {}
    /\ pending = <<>>
    /\ sinceRequest = 0
    /\ lastOp = IF stored = <<>> THEN "imageOnLoad" ELSE "handlePreviousImage"
    /\ scope = s

\* the annotation store and the label registry of the active image
InitStore == Loaded(<<>>, StoreScope)

NextStore ==
    \/ AddAnnotation \/ UpdateAnnotation \/ DeleteAnnotation \/ SelectAnnotation
    \/ SelectLabel \/ AddLabel \/ DeleteLabelAmong(LabelIds(labels))
    \/ ChangeLabelColorAmong(LabelIds(labels))
    \/ Undo \/ Redo

SpecStore == InitStore /\ [][NextStore]_vars

\* add, update and delete on the active image, and nothing else
InitEdits == Loaded(<<>>, EditScope)

NextEdits == AddAnnotation \/ UpdateAnnotation \/ DeleteAnnotation \/ SelectAnnotation

SpecEdits == InitEdits /\ [][NextEdits]_vars

\* the drawing tools on an image without annotations
InitDraw == Loaded(<<>>, DrawScope)

NextDraw == SetTool \/ MouseDown \/ MouseMove \/ MouseUp

SpecDraw == InitDraw /\ [][NextDraw]_vars

\* the rectangle tool with the pointer inside the image, on its right and
\* bottom edge, and beyond them
SpecEdge ==
    /\ Loaded(<<>>, [DrawScope EXCEPT !.tools = {"select", "rectangle"},
                                      !.pointerX = {8, 28, 30},
                                      !.pointerY = {8, 28, 31}])
    /\ [][SetTool \/ MouseDown \/ MouseMove \/ MouseUp]_vars

\* the select tool on an image that holds one rectangle drawn earlier
InitResize ==
    \E r \in {Rectangle12, Rectangle6} :
        Loaded(<<Merge(r, [id |-> FirstUuid, labelId |-> defaultLabels[1].id,
                           color |-> defaultLabels[1].color])>>, ResizeScope)

NextResize == MouseDown \/ MouseMove \/ MouseUp

SpecResize == InitResize /\ [][NextResize]_vars

\* the same gestures on two rectangles that overlap, the second drawn after
\* the first, with room in the history for several pointer moves
SpecGesture ==
    /\ Loaded(<<Merge(Rectangle12,
                      [id |-> FirstUuid, labelId |-> defaultLabels[1].id,
                       color |-> defaultLabels[1].color]),
                Merge([Rectangle12 EXCEPT !.x = 8, !.y = 8],
                      [id |-> FirstUuid + 1, labelId |-> defaultLabels[2].id,
                       color |-> defaultLabels[2].color])>>,
              [ResizeScope EXCEPT !.history = MaxHistory + 1,
                                  !.pointerX = {5, 14, 28},
                                  !.pointerY = {6, 14}])
    /\ [][NextResize]_vars

\* the drawing tools on an image without annotations, with the sidebar's
\* label selection, explored up to the first annotation committed
SpecTools ==
    /\ Loaded(<<>>,
              [DrawScope EXCEPT !.tools = {"rectangle", "point", "polygon"},
                                !.pointerX = {8, 24}, !.pointerY = {8, 24}])
    /\ [][/\ CanGenerate(1)
          /\ \/ SetTool \/ MouseDown \/ MouseMove \/ MouseUp \/ DoubleClick
             \/ SelectLabel]_vars

\* the polygon tool and the pan gesture, on few pointer positions
InitCanvas == Loaded(<<>>, CanvasScope)

NextCanvas ==
    \/ SetTool \/ MouseDown \/ MouseMove \/ MouseUp \/ DoubleClick \/ Escape

SpecCanvas == InitCanvas /\ [][NextCanvas]_vars

\* the view of an image that holds one rectangle: zooming and the pan gesture
SpecZoom ==
    /\ Loaded(<<Merge(Rectangle12,
                      [id |-> FirstUuid, labelId |-> defaultLabels[1].id,
                       color |-> defaultLabels[1].color])>>,
              Merge(NoPointer,
                    [ids |-> MaxIds, history |-> MaxHistory,
                     shapes |-> {}, updates |-> {},
                     pointerX |-> {8, 24}, pointerY |-> {8},
                     panButton |-> {TRUE}]))
    /\ [][\/ ZoomIn \/ ZoomOut \/ FitToScreen
          \/ MouseDown \/ MouseMove \/ MouseUp]_vars

\* the detection merges of a session of two images
SpecMerge ==
    /\ Loaded(<<>>, MergeScope)
    /\ [][\/ AddAnnotation \/ PreviousImage \/ NextImage
          \/ AutoAnnotate \/ AutoAnnotateFails \/ AutoAnnotateResponds
          \/ BatchAutoAnnotate \/ BatchAutoAnnotateFails
          \/ BatchAutoAnnotateResponds]_vars

(***************************************************************************)
(* Properties of the history log.                                          *)
(***************************************************************************)
\* C1: from any state reached by add / update / delete on the active image,
\* undo immediately followed by redo shows the annotation sequence that was
\* shown before the undo.
C1_UndoThenRedoRestores ==
    LET undone == undoResult(annotations, history, historyIndex)
        redone == redoResult(undone.annotations, history, undone.historyIndex)
    IN  /\ redone.annotations = annotations
        /\ redone.historyIndex = historyIndex

\* three edits deep, after a delete: the undo shows another sequence
C1_UndoChangesTheDisplay ==
    /\ lastOp = "handleAnnotationDelete"
    /\ historyIndex = 3
    /\ undoResult(annotations, history, historyIndex).annotations # annotations

\* C2: in every reachable state the history log is not empty, the index
\* points into it, and the displayed annotations are the entry it points at.
C2_DisplayedIsLogEntry ==
    /\ Len(history) > 0
    /\ historyIndex \in 0..(Len(history) - 1)
    /\ annotations = history[historyIndex + 1]

\* a folder upload whose first image came back with detections
C2_AfterFolderDetections ==
    /\ lastOp = "handleFolderUploadWithDetection:merged"
    /\ historyIndex = 1
    /\ annotations # <<>>

MutatingOps ==
    {"handleAnnotationAdd", "handleAnnotationUpdate", "handleAnnotationDelete",
     "handleLabelColorChange", "handleLabelDelete"}

\* C3: every mutating operation (add, update, delete, label colour change,
\* label delete) cuts the log down to entries 0..index, appends one snapshot
\* of the whole annotation sequence and points the index at it; so redo
\* right after it is a no-op.
C3_MutationTruncatesThenAppends ==
    [][lastOp' \in MutatingOps =>
          /\ history' = Append(SubSeq(history, 1, historyIndex + 1), annotations')
          /\ historyIndex' = Len(history') - 1
          /\ redoResult(annotations', history', historyIndex') =
                 [annotations |-> annotations', historyIndex |-> historyIndex']
      ]_vars

\* an add, an undo, and a second add that replaced the first in the log
C3_ForwardBranchDiscarded ==
    /\ lastOp = "handleAnnotationAdd"
    /\ nextId = FirstUuid + 2
    /\ historyIndex = 1
    /\ Len(history) = 2
    /\ Len(annotations) = 1

\* C4: undo at index 0 and redo at the last index change neither the
\* displayed annotations nor the log nor the index.
C4_UndoRedoAtTheEndsAreNoOps ==
    [][(\/ lastOp' = "handleUndo" /\ historyIndex = 0
        \/ lastOp' = "handleRedo" /\ historyIndex = Len(history) - 1)
          => /\ UNCHANGED <<annotations, history, historyIndex>>
             /\ historyIndex' \in 0..(Len(history') - 1)
      ]_vars

\* an undo on a log of one entry
C4_UndoAtIndexZero ==
    /\ lastOp = "handleUndo"
    /\ Len(history) = 1
    /\ historyIndex = 0

\* C5: deleting a label removes from the displayed sequence exactly the
\* annotations of that label, as one history entry, and one undo shows the
\* sequence as it was before the deletion.
C5_LabelDeleteIsOneUndoableStep ==
    [][lastOp' = "handleLabelDelete" =>
          LET gone == LabelIds(labels) \ LabelIds(labels')
          IN  /\ Cardinality(gone) = 1
              /\ annotations' =
                     SelectSeq(annotations, LAMBDA a : LabelIdOf(a) \notin gone)
              /\ Len(history') = historyIndex + 2
              /\ historyIndex' = historyIndex + 1
              /\ undoResult(annotations', history', historyIndex').annotations
                     = annotations
      ]_vars

\* a label delete that removed one annotation and kept another
C5_DeleteRemovedSomeKeptSome ==
    /\ lastOp = "handleLabelDelete"
    /\ annotations # <<>>
    /\ Len(history[historyIndex]) > Len(annotations)

\* C6: every annotation, displayed or stored for an image, carries the
\* labelId of a label of the registry.
C6_LabelIdsAreInTheRegistry ==
    /\ \A i \in 1..Len(annotations) :
          LabelIdOf(annotations[i]) \in LabelIds(labels)
    /\ \A u \in DOMAIN imageAnnotations :
          \A i \in 1..Len(imageAnnotations[u]) :
              LabelIdOf(imageAnnotations[u][i]) \in LabelIds(labels)

(***************************************************************************)
(* Properties of the pointer gestures.                                     *)
(***************************************************************************)
MouseUpOps ==
    {"handleMouseUp:pan", "handleMouseUp:drag", "handleMouseUp:resize",
     "handleMouseUp:rectangle", "handleMouseUp:small", "handleMouseUp:idle"}

\* a rectangle is being drawn from startPoint to currentPoint
DrawingRectangle == isDrawing /\ startPoint # None /\ currentPoint # None

\* C7: a rectangle-tool drag that is at most 5 image pixels wide or at most
\* 5 image pixels high creates nothing: pointer-up leaves the annotation
\* sequence and the history log as they were.
C7_SmallDragCreatesNothing ==
    [][(/\ DrawingRectangle
        /\ \/ Abs(currentPoint.x - startPoint.x) <= 5
           \/ Abs(currentPoint.y - startPoint.y) <= 5
        /\ lastOp' \in MouseUpOps)
          => /\ annotations' = annotations
             /\ history' = history
             /\ historyIndex' = historyIndex
      ]_vars

\* pointer-up after a drag that was too small, the pointer having moved
C7_SmallDragReleased ==
    /\ lastOp = "handleMouseUp:small"
    /\ currentPoint # None
    /\ annotations = <<>>

\* the pointer-up that comes next ends the rectangle drag: gestures do not
\* overlap, so no pan, move or resize was begun while the drag was under way
EndsTheDrag == ~isPanning /\ ~isDragging /\ ~isResizing

\* C8: a rectangle-tool drag more than 5 image pixels wide and high appends
\* exactly one rectangle with x = min, y = min, width = |dx|, height = |dy|
\* and the active label, whatever the direction of the drag.
C8_LargeDragAppendsTheRectangle ==
    [][(/\ DrawingRectangle /\ EndsTheDrag
        /\ Abs(currentPoint.x - startPoint.x) > 5
        /\ Abs(currentPoint.y - startPoint.y) > 5
        /\ lastOp' \in MouseUpOps)
          => /\ Len(annotations') = Len(annotations) + 1
             /\ SubSeq(annotations', 1, Len(annotations)) = annotations
             /\ LET new == annotations'[Len(annotations')]
                IN  /\ new.type = "rectangle"
                    /\ new.x = Min(startPoint.x, currentPoint.x)
                    /\ new.y = Min(startPoint.y, currentPoint.y)
                    /\ new.width = Abs(currentPoint.x - startPoint.x)
                    /\ new.height = Abs(currentPoint.y - startPoint.y)
                    /\ new.labelId = selectedLabelId
      ]_vars

\* a drag towards the upper left: the release point is the rectangle's corner
C8_DraggedUpAndLeft ==
    /\ lastOp = "handleMouseUp:rectangle"
    /\ Len(annotations) = 1
    /\ annotations[1].x = currentPoint.x
    /\ annotations[1].y = currentPoint.y
    /\ annotations[1].labelId = selectedLabelId

MouseMoveOps ==
    {"handleMouseMove:pan", "handleMouseMove:outside", "handleMouseMove:drag",
     "handleMouseMove:resize", "handleMouseMove:point"}

\* C9: a resize, with whichever handle and along whichever pointer path,
\* never hands over a rectangle less than 10 wide or less than 10 high.
C9_ResizeKeepsTheMinimumSize ==
    [][(isResizing /\ lastOp' \in MouseMoveOps /\ history' # history)
          => \A i \in 1..Len(annotations') :
                annotations'[i].id = selectedAnnotationId
                    => /\ annotations'[i].width >= 10
                       /\ annotations'[i].height >= 10
      ]_vars

\* a handle pulled inwards past the minimum: the width stopped at 10
C9_ShrunkToTheMinimum ==
    /\ lastOp = "handleMouseMove:resize"
    /\ historyIndex = 1
    /\ history[1][1].width > 10
    /\ annotations[1].width = 10

\* C10: while a rectangle is resized with the pointer inside the image, the
\* rectangle lies within the image.
C10_ResizeStaysInsideTheImage ==
    (isResizing /\ lastOp = "handleMouseMove:resize")
        => \A i \in 1..Len(annotations) :
              annotations[i].id = selectedAnnotationId
                  => /\ annotations[i].x >= 0
                     /\ annotations[i].y >= 0
                     /\ annotations[i].x + annotations[i].width <= image.width
                     /\ annotations[i].y + annotations[i].height <= image.height

C12_NavigationKeepsTheLeftImage ==
    [][(/\ lastOp' \in {"handlePreviousImage", "handleNextImage"}
        /\ currentImageIndex' # currentImageIndex)
          => /\ imageUrl' = imageUrls[currentImageIndex' + 1]
             /\ imageUrl \in DOMAIN imageAnnotations'
             /\ imageAnnotations'[imageUrl] = annotations
             /\ annotations' = IF imageUrl' \in DOMAIN imageAnnotations
                                THEN imageAnnotations[imageUrl'] ELSE <<>>
             /\ \A u \in DOMAIN imageAnnotations \ {imageUrl, imageUrl'} :
                    imageAnnotations'[u] = imageAnnotations[u]
      ]_vars

\* back on the first image after a visit to the second: its annotation is shown
C12_BackOnTheAnnotatedImage ==
    /\ lastOp = "handlePreviousImage"
    /\ currentImageIndex = 0
    /\ annotations # <<>>
    /\ Len(imageUrls) = 2
    /\ imageUrls[2] \in DOMAIN imageAnnotations
    /\ imageAnnotations[imageUrls[2]] = <<>>

(***************************************************************************)
(* Properties of the detection merges.                                     *)
(***************************************************************************)
\* C13: on every merge path a detection whose bbox is not 4 values, or has
\* x2 <= x1 or y2 <= y1, makes no annotation, and every other detection makes
\* one rectangle {x1, y1, x2 - x1, y2 - y1}: so every annotation displayed or
\* stored is a drawn shape or a rectangle of positive width and height, and
\* none is a detection with its bbox.
C13_DetectionsBecomeProperRectangles ==
    LET proper(a) ==
            /\ "bbox" \notin DOMAIN a
            /\ \/ TypeOf(a) \in {"point", "polygon"}
               \/ /\ TypeOf(a) = "rectangle"
                  /\ a.width > 0
                  /\ a.height > 0
    IN  /\ \A i \in 1..Len(annotations) : proper(annotations[i])
        /\ \A u \in DOMAIN imageAnnotations :
              \A i \in 1..Len(imageAnnotations[u]) : proper(imageAnnotations[u][i])

C15_MergeAppends ==
    [][lastOp' \in {"handleAutoAnnotate:merged", "handleBatchAutoAnnotate:merged"}
          => LET Extends(old, new) ==
                     Len(old) <= Len(new) /\ SubSeq(new, 1, Len(old)) = old
             IN  /\ Extends(annotations, annotations')
                 /\ \A u \in DOMAIN imageAnnotations :
                       /\ u \in DOMAIN imageAnnotations'
                       /\ Extends(imageAnnotations[u], imageAnnotations'[u])
      ]_vars

\* C16: when a single-image or a batch detection request fails, handling the
\* failure changes neither the displayed annotations, nor the history log
\* and index, nor the label registry, nor the per-image map.
C16_FailureLeavesTheStateAlone ==
    [][lastOp' \in {"handleAutoAnnotate:failed", "handleBatchAutoAnnotate:failed"}
          => UNCHANGED <<annotations, history, historyIndex, labels,
                         selectedLabelId, imageAnnotations>>
      ]_vars

\* a single-image request failed while an annotation was displayed
C16_FailedWithAnnotations ==
    /\ lastOp = "handleAutoAnnotate:failed"
    /\ annotations # <<>>
    /\ imageAnnotations[imageUrl] = annotations
    /\ ~isAutoAnnotating

\* C17: in a batch detection an item that failed (its image could not be
\* fetched, or its result carries an error) leaves the stored set of its image
\* as it was, and every other item's rectangles are in the stored set of its
\* own image afterwards.  Stated of every batch request in flight, for every
\* set of images its fetches may deliver and every response; the items of a
\* response are the fetched images in their order.
C17_FailedItemsAreLeftOutOfTheBatch ==
    LET Usable(d) == /\ Len(d.bbox) = 4
                     /\ d.bbox[3] > d.bbox[1]
                     /\ d.bbox[4] > d.bbox[2]
        Stored(map, u) == IF u \in DOMAIN map THEN map[u] ELSE <<>>
        EndsWith(anns, dets) ==
            LET u == SelectSeq(dets, Usable)
                off == Len(anns) - Len(u)
            IN  /\ off >= 0
                /\ \A i \in 1..Len(u) :
                      /\ anns[off + i].x = u[i].bbox[1]
                      /\ anns[off + i].y = u[i].bbox[2]
                      /\ anns[off + i].width = u[i].bbox[3] - u[i].bbox[1]
                      /\ anns[off + i].height = u[i].bbox[4] - u[i].bbox[2]
    IN  \A p \in 1..Len(pending) :
        pending[p].kind = "batch" =>
        \A fetched \in (SUBSET Fetchable(pending[p])) \ {{}} :
        \A results \in ResultSeqs(Cardinality(fetched)) :
            LET c == pending[p]
                item(k) == Cardinality({m \in fetched : m <= k})
                r == batchResults(c, results, 1,
                         [map |-> c.imageAnnotations, total |-> 0,
                          allNewLabels |-> <<>>, next |-> nextId])
                after == IF r.total > 0 THEN r.map ELSE c.imageAnnotations
            IN  \A k \in 1..Len(c.imageUrls) :
                    IF k \in fetched /\ results[item(k)].error = ""
                    THEN r.total > 0 =>
                            EndsWith(Stored(after, c.imageUrls[k]),
                                     results[item(k)].detections)
                    ELSE Stored(after, c.imageUrls[k])
                             = Stored(c.imageAnnotations, c.imageUrls[k])

(***************************************************************************)
(* Properties of the busy flag.                                            *)
(***************************************************************************)
\* C18: a single-image or batch detection request is started only while the
\* busy flag is clear and no request is in flight, so at most one request is
\* in flight at any time.  (That edits, undo / redo and navigation stay
\* available meanwhile is shown by the reachable states below.)
C18_OneRequestAtATime ==
    [][/\ (/\ lastOp' \in {"handleAutoAnnotate", "handleBatchAutoAnnotate"}
           /\ pending' # pending)
              => ~isAutoAnnotating /\ pending = <<>>
       /\ Len(pending') <= 1
      ]_vars

\* an annotation added while a request is in flight and the flag is set
C18_EditedWhileBusy ==
    /\ lastOp = "handleAnnotationAdd"
    /\ isAutoAnnotating
    /\ Len(pending) = 1
    /\ pending[1].kind = "single"

\* C19: whenever the busy flag is set it is eventually cleared, whichever
\* request set it (single image, batch, folder, video) and whether that
\* request succeeds, fails or returns early.
C19_BusyFlagIsEventuallyCleared == isAutoAnnotating ~> ~isAutoAnnotating

\* a request has settled, its flag is cleared and Auto Annotate is enabled again
C19_SettledAndEnabledAgain ==
    /\ lastOp \in {"handleAutoAnnotate:failed", "handleAutoAnnotate:merged",
                   "handleBatchAutoAnnotate:failed",
                   "handleFolderUploadWithDetection:failed",
                   "handleVideoFrameProcessing:settled"}
    /\ pending = <<>>
    /\ ~isAutoAnnotating
    /\ imageUrl # Null
    /\ ENABLED AutoAnnotate

(***************************************************************************)
(* Properties of the uploads.                                              *)
(***************************************************************************)
\* C20: after the upload of a single image, a batch of images or a video the
\* image list is exactly the uploaded items, the per-image map holds exactly
\* those items, each with an empty set, nothing is displayed and the history
\* is one empty snapshot at index 0.
C20_UploadStartsAfresh ==
    [][lastOp' \in {"handleFileUpload", "handleBatchImageUpload",
                    "handleVideoUpload"}
          => /\ imageUrls' = NewUrls(nextUrl' - nextUrl)
             /\ DOMAIN imageAnnotations' = Range(imageUrls')
             /\ \A u \in DOMAIN imageAnnotations' : imageAnnotations'[u] = <<>>
             /\ annotations' = <<>>
             /\ history' = << <<>> >>
             /\ historyIndex' = 0
      ]_vars

(***************************************************************************)
(* Properties of the object URLs.                                          *)
(***************************************************************************)
\* C21: an upload releases every object URL created by an earlier upload:
\* after an upload step no URL of a previous upload is left unreleased.
C21_UploadReleasesEarlierHandles ==
    [][(/\ lastOp' \in {"handleFileUpload", "handleBatchImageUpload",
                        "handleVideoUpload"}
        /\ nextUrl' > nextUrl)
          => \A u \in 1..(nextUrl - 1) : u \in revoked'
      ]_vars

(***************************************************************************)
(* Properties of the view.                                                 *)
(***************************************************************************)
\* C22: from zoom 1, every sequence of zoom-in, zoom-out and fit-to-screen
\* keeps zoom within [0.1, 5]: zoom-in gives min(zoom * 1.2, 5), zoom-out
\* gives max(zoom / 1.2, 0.1) (each to the thousandth), fit-to-screen gives
\* zoom 1 and pan (0, 0), and none of them changes the annotations or the
\* history.
C22_ZoomStaysInRange ==
    [][/\ zoom' >= ZoomUnit \div 10 /\ zoom' <= 5 * ZoomUnit
       /\ lastOp' = "handleZoomIn"
             => Abs(Min(zoom * 6, 5 * ZoomUnit * 5) - zoom' * 5) < 5
       /\ lastOp' = "handleZoomOut"
             => Abs(Max(zoom * 5, (ZoomUnit \div 10) * 6) - zoom' * 6) < 6
       /\ lastOp' = "handleFitToScreen"
             => zoom' = ZoomUnit /\ pan' = [x |-> 0, y |-> 0]
       /\ lastOp' \in {"handleZoomIn", "handleZoomOut", "handleFitToScreen"}
             => UNCHANGED <<annotations, imageAnnotations, history, historyIndex>>
      ]_vars

\* zoomed in to the upper limit on a panned image that holds an annotation
C22_ZoomedInToTheLimit ==
    /\ lastOp = "handleZoomIn"
    /\ zoom = 5 * ZoomUnit
    /\ pan.x # 0
    /\ annotations # <<>>

(***************************************************************************)
(* Properties of the select tool's gestures.                               *)
(***************************************************************************)
\* C23: a whole resize gesture (pointer-down on a handle, pointer-moves,
\* pointer-up) appends one entry to the history log: when the gesture ends
\* with the rectangle changed, the entry before the current one, which a
\* single undo shows, holds the rectangle with its pre-gesture geometry.
C23_OneUndoRestoresTheGesture ==
    [][LET k == selectedIndex
           Bounds(a) == [x |-> a.x, y |-> a.y, width |-> a.width,
                         height |-> a.height]
       IN  (/\ lastOp' = "handleMouseUp:resize"
            /\ k # 0
            /\ originalBounds # None
            /\ Bounds(annotations[k]) # originalBounds)
              => /\ historyIndex >= 1
                 /\ Bounds(undoResult(annotations, history, historyIndex)
                               .annotations[k]) = originalBounds
      ]_vars

\* C24: with the select tool, a pointer-down on a point that several
\* rectangles contain selects the one added last.
C24_TopmostRectangleIsSelected ==
    [][lastOp' \in {"handleMouseDown:drag", "handleMouseDown:resize"}
          => LET coords == IF lastOp' = "handleMouseDown:drag"
                           THEN dragStart' ELSE resizeStart'
                 hits == {i \in 1..Len(annotations) :
                            /\ TypeOf(annotations[i]) = "rectangle"
                            /\ coords.x >= annotations[i].x
                            /\ coords.x <= annotations[i].x + annotations[i].width
                            /\ coords.y >= annotations[i].y
                            /\ coords.y <= annotations[i].y + annotations[i].height}
                 last == CHOOSE i \in hits : \A j \in hits : j <= i
             IN  selectedAnnotationId' = annotations[last].id
      ]_vars

\* C25: with the select tool, a pointer-down on a resize handle of a
\* rectangle (the square of handleSize canvas pixels centred on a corner)
\* starts a resize with that handle, whether or not the point lies inside
\* the rectangle's body.
C25_HandleHitStartsAResize ==
    [][\A cx \in scope.pointerX, cy \in scope.pointerY :
          LET onHandle == {i \in 1..Len(annotations) :
                             /\ TypeOf(annotations[i]) = "rectangle"
                             /\ getResizeHandleAt(cx, cy, annotations[i]) # ""}
          IN  (/\ currentTool = "select"
               /\ getImageCoordinates(cx, cy) # None
               /\ onHandle # {}
               /\ handleMouseDown(cx, cy, FALSE))
                 => /\ isResizing'
                    /\ \E i \in onHandle :
                          /\ resizeHandle' = getResizeHandleAt(cx, cy, annotations[i])
                          /\ selectedAnnotationId' = annotations[i].id
      ]_vars

\* C26: during a resize with handle h the corner opposite to h keeps the
\* image-space position it had when the gesture began, for every pointer
\* position, also when the minimum size is reached.
C26_OppositeCornerStaysPut ==
    [][lastOp' = "handleMouseMove:resize" /\ selectedIndex # 0
          => LET Opposite(b) ==
                     [x |-> IF resizeHandle \in {"nw", "sw"}
                            THEN b.x + b.width ELSE b.x,
                      y |-> IF resizeHandle \in {"nw", "ne"}
                            THEN b.y + b.height ELSE b.y]
             IN  Opposite(annotations'[selectedIndex]) = Opposite(originalBounds)
      ]_vars

\* C27: while a rectangle is dragged, every pointer-move leaves it inside the
\* image (0 <= x, x + width <= image width, 0 <= y, y + height <= image
\* height) and changes neither its size nor any other annotation.
C27_DragStaysInsideTheImage ==
    [][LET k == selectedIndex
       IN  (/\ lastOp' = "handleMouseMove:drag"
            /\ k # 0
            /\ TypeOf(annotations[k]) = "rectangle")
              => /\ Len(annotations') = Len(annotations)
                 /\ \A i \in 1..Len(annotations) :
                       i # k => annotations'[i] = annotations[i]
                 /\ annotations'[k].width = annotations[k].width
                 /\ annotations'[k].height = annotations[k].height
                 /\ annotations'[k].x >= 0
                 /\ annotations'[k].y >= 0
                 /\ annotations'[k].x + annotations'[k].width <= image.width
                 /\ annotations'[k].y + annotations'[k].height <= image.height
      ]_vars

\* C28: an Escape key press returns the canvas to Idle from every tool state
\* (no drawing, panning, dragging or resizing in progress, no polygon
\* vertices accumulated), and a pointer-up ends every pointer gesture.
C28_EscapeAndPointerUpReturnToIdle ==
    [][/\ lastOp' = "handleKeyDown:Escape"
             => /\ ~isDrawing' /\ ~isPanning' /\ ~isDragging' /\ ~isResizing'
                /\ polygonPoints' = <<>>
       /\ lastOp' \in MouseUpOps
             => ~isDrawing' /\ ~isPanning' /\ ~isDragging' /\ ~isResizing'
      ]_vars

\* C29: at most one pointer gesture is in progress at any time: of drawing,
\* panning, dragging and resizing no two are ever active together.
C29_OneGestureAtATime ==
    \A a, b \in {"drawing", "panning", "dragging", "resizing"} :
        LET Active(g) == CASE g = "drawing" -> isDrawing
                           [] g = "panning" -> isPanning
                           [] g = "dragging" -> isDragging
                           [] g = "resizing" -> isResizing
        IN  Active(a) /\ Active(b) => a = b

C31_NavigationStartsAFreshHistory ==
    [][LET back == lastOp' = "handlePreviousImage"
           hasNeighbour ==
               /\ Len(imageUrls) > 0
               /\ IF back THEN currentImageIndex > 0
                          ELSE currentImageIndex < Len(imageUrls) - 1
           incoming == imageUrls[IF back THEN currentImageIndex
                                         ELSE currentImageIndex + 2]
           stored == IF incoming \in DOMAIN imageAnnotations
                     THEN imageAnnotations[incoming] ELSE <<>>
           same == [annotations |-> annotations', historyIndex |-> 0]
       IN  lastOp' \in {"handlePreviousImage", "handleNextImage"}
             => IF hasNeighbour
                THEN /\ history' = <<stored>>
                     /\ historyIndex' = 0
                     /\ annotations' = stored
                     /\ undoResult(annotations', history', historyIndex') = same
                     /\ redoResult(annotations', history', historyIndex') = same
                ELSE UNCHANGED <<storeVars, sessionVars, labelVars, viewVars,
                                 currentTool, selectedAnnotationId, canvasVars,
                                 envVars>>
      ]_vars

\* a navigation away from an image whose history held more than one snapshot
C31_NavigatedAwayFromEdits ==
    /\ lastOp = "handleNextImage"
    /\ currentImageIndex = 1
    /\ history = <<annotations>>
    /\ historyIndex = 0
    /\ imageUrls[1] \in DOMAIN imageAnnotations
    /\ imageAnnotations[imageUrls[1]] # <<>>

\* C32: edits made between the request of a single-image detection and the
\* arrival of its result survive the merge: on the image the request was
\* made for, the merged sequence is the sequence displayed at arrival
\* followed by the new rectangles, and the history keeps the entries made in
\* between.
C32_EditsSurviveTheMerge ==
    [][(/\ lastOp' = "handleAutoAnnotate:merged"
        /\ annotations' # annotations
        /\ \E i \in 1..Len(pending) :
              /\ pending[i].kind = "single"
              /\ pending' = RemoveAt(pending, i)
              /\ pending[i].imageUrl = imageUrl)
          => /\ Len(annotations') > Len(annotations)
             /\ SubSeq(annotations', 1, Len(annotations)) = annotations
             /\ \A i \in (Len(annotations) + 1)..Len(annotations') :
                   annotations'[i].id \notin AnnotationIds(annotations)
             /\ Len(history') > historyIndex + 1
             /\ SubSeq(history', 1, historyIndex + 1)
                  = SubSeq(history, 1, historyIndex + 1)
      ]_vars

\* C33: when the user has navigated to another image while a single-image
\* detection is outstanding, the arriving detections are not added to the
\* image now active, neither to its displayed sequence nor to the sequence
\* stored for it.
C33_DetectionsStayWithTheirImage ==
    [][(/\ lastOp' = "handleAutoAnnotate:merged"
        /\ \E i \in 1..Len(pending) :
              /\ pending[i].kind = "single"
              /\ pending' = RemoveAt(pending, i)
              /\ pending[i].imageUrl # imageUrl)
          => /\ imageUrl' = imageUrl
             /\ AnnotationIds(annotations') \subseteq AnnotationIds(annotations)
             /\ imageUrl \in DOMAIN imageAnnotations'
                  => AnnotationIds(imageAnnotations'[imageUrl])
                        \subseteq AnnotationIds(annotations)
      ]_vars

\* C34: in a batch detection the rectangles made from the detections of the
\* k-th image are stored under the k-th image's URL, also when the fetch of
\* another image failed and that image was left out of the request.  Stated
\* of every batch request in flight, for every set of images its fetches may
\* deliver and every response whose items are the fetched images in order.
C34_BatchResultsGoToTheirOwnImage ==
    LET Stored(map, u) == IF u \in DOMAIN map THEN map[u] ELSE <<>>
        Holds(anns, d) ==
            \E i \in 1..Len(anns) :
                /\ TypeOf(anns[i]) = "rectangle"
                /\ anns[i].x = d.bbox[1]
                /\ anns[i].y = d.bbox[2]
                /\ anns[i].width = d.bbox[3] - d.bbox[1]
                /\ anns[i].height = d.bbox[4] - d.bbox[2]
    IN  \A p \in 1..Len(pending) :
        pending[p].kind = "batch" =>
        \A fetched \in (SUBSET Fetchable(pending[p])) \ {{}} :
        \A results \in ResultSeqs(Cardinality(fetched)) :
            LET c == pending[p]
                item(k) == Cardinality({m \in fetched : m <= k})
                r == batchResults(c, results, 1,
                         [map |-> c.imageAnnotations, total |-> 0,
                          allNewLabels |-> <<>>, next |-> nextId])
            IN  r.total > 0 =>
                \A k \in fetched :
                    results[item(k)].error = "" =>
                    \A j \in 1..Len(results[item(k)].detections) :
                        LET d == results[item(k)].detections[j]
                        IN  BBoxValid(d) /\ d.bbox[3] > d.bbox[1]
                                         /\ d.bbox[4] > d.bbox[2]
                              => Holds(Stored(r.map, c.imageUrls[k]), d)

\* C35: after a label is deleted the active label id is null or the id of a
\* label still in the registry, so that no drawing tool afterwards creates an
\* annotation of the deleted label.
C35_ActiveLabelSurvivesALabelDelete ==
    [][lastOp' = "handleLabelDelete"
          => \/ selectedLabelId' = Null
             \/ selectedLabelId' \in LabelIds(labels')
      ]_vars

\* C36: in every reachable state the selected annotation id is null or the
\* id of an annotation of the displayed sequence; in particular after an
\* annotation delete, a label-delete cascade, undo / redo, a navigation and
\* an upload.
C36_SelectionIsDisplayed ==
    \/ selectedAnnotationId = Null
    \/ selectedAnnotationId \in AnnotationIds(annotations)

\* C37: whenever the image list is not empty, the current index is within
\* the list and the displayed image is the list's element at that index;
\* also after a single-image upload that follows a batch upload.
C37_DisplayedImageIsTheCurrentOfTheList ==
    Len(imageUrls) > 0
      => /\ 0 <= currentImageIndex
         /\ currentImageIndex < Len(imageUrls)
         /\ imageUrl = imageUrls[currentImageIndex + 1]

\* C38: after a folder upload with detection the displayed sequence of the
\* first image is the sequence stored for it, and each of its elements is a
\* rectangle of positive width and height whose labelId is the id of a
\* label of the registry, existing or synthesized by the merge.
C38_FolderUploadDisplaysStoredRectangles ==
    [][(/\ lastOp' = "handleFolderUploadWithDetection:merged"
        /\ imageUrl' # Null)
          => /\ imageUrl' = imageUrls'[1]
             /\ imageUrl' \in DOMAIN imageAnnotations'
             /\ annotations' = imageAnnotations'[imageUrl']
             /\ \A i \in 1..Len(annotations') :
                   /\ TypeOf(annotations'[i]) = "rectangle"
                   /\ annotations'[i].width > 0
                   /\ annotations'[i].height > 0
                   /\ LabelIdOf(annotations'[i]) \in LabelIds(labels')
      ]_vars

\* C39: a detection that is discarded because its width or height is not
\* positive has no effect at all; in particular no label is synthesized for
\* its class: every label a merge adds to the registry is the label of a
\* rectangle the same merge has created.
C39_DiscardedDetectionsLeaveNoLabel ==
    [][lastOp' \in {"handleAutoAnnotate:merged", "handleBatchAutoAnnotate:merged"}
          => \A k \in (Len(labels) + 1)..Len(labels') :
                \/ \E i \in 1..Len(annotations') :
                      LabelIdOf(annotations'[i]) = labels'[k].id
                \/ \E u \in DOMAIN imageAnnotations' :
                      \E i \in 1..Len(imageAnnotations'[u]) :
                          LabelIdOf(imageAnnotations'[u][i]) = labels'[k].id
      ]_vars

\* C40: every rectangle the rectangle tool commits lies within the image,
\* 0 <= x, 0 <= y, x + width <= image width, y + height <= image height,
\* also when the pointer has left the image during the drag.
C40_DrawnRectangleLiesInTheImage ==
    [][(lastOp' = "handleMouseUp:rectangle" /\ Len(annotations') > Len(annotations))
          => LET r == annotations'[Len(annotations')]
             IN  /\ TypeOf(r) = "rectangle"
                 /\ r.x >= 0
                 /\ r.y >= 0
                 /\ r.x + r.width <= image.width
                 /\ r.y + r.height <= image.height
      ]_vars

\* a rectangle that was drawn up to the right and bottom edge of the image
C40_DrawnUpToTheEdge ==
    /\ lastOp = "handleMouseUp:rectangle"
    /\ annotations # <<>>
    /\ LET r == annotations[Len(annotations)]
       IN  /\ r.x + r.width = image.width
           /\ r.y + r.height = image.height
====
